---- MODULE Spec2Model ----
(***************************************************************************)
(* The reactive core of Vue 2: Dep, Watcher, the scheduler and nextTick.   *)
(*                                                                         *)
(* JavaScript runs one call stack at a time.  The model keeps that call    *)
(* stack explicitly (variable stack): library functions that call back     *)
(* into user code (getters, watcher callbacks, nextTick callbacks) are     *)
(* split at the points where user code runs, and user code is a            *)
(* nondeterministic sequence of operations on the reactive state.          *)
(***************************************************************************)
EXTENDS Integers, Sequences, FiniteSets, TLC

(***************************************************************************)
(* Bounds of the model.                                                    *)
(***************************************************************************)
\* operations user code performs over a whole behaviour
MaxOps == 3
\* a callback that dirties what a watcher reads stops doing so when the
\* cursor of the flush has reached MaxRuns
MaxRuns == 205
\* the longest array
MaxItems == 3

(***************************************************************************)
(* Value encodings.                                                        *)
(***************************************************************************)
\* the JavaScript value undefined
UNDEF == -1
\* the JavaScript value NaN (the only value not === to itself)
NaN == 0
\* primitive values a property may hold
Primitives == {NaN, 1, 2}
\* a plain object a property may hold; the Dep of its Observer carries the
\* object's number as its id
OBJ == 10
Objects == {OBJ}
Values == Primitives \cup Objects
\* an array a property may hold; the Dep of its Observer carries the
\* array's number as its id
ARR == 11
Arrays == {ARR}
\* reactive properties of the observed object: obj.a is 1, obj.b is 2; the
\* Dep of a property carries the property's number as its id
Props == {1, 2}
\* watcher ids, in creation order (Watcher.id = ++uid)
Watchers == {1, 2}
\* component instances (watcher.vm)
Vms == {1, 2}
\* the keys the plain object OBJ may have, and the mark of a key it has not
Keys == {1, 2}
ABSENT == -2
\* the Dep that defineReactive makes for a key of OBJ: the Dep with id u
KeyDep(u) == 20 + u
KeyDeps == {KeyDep(u) : u \in 0..(2 * MaxOps + 6)}
\* the callbacks entry that wraps flushSchedulerQueue
FLUSH == 0

VARIABLES
  config,       \* [async, production, microtask]: build and host configuration
  wopt,         \* [Watchers -> options]: user, lazy, sync, deep, path, init, vm, ...
  vm,           \* [Vms -> fields]: watchers (_watchers), isBeingDestroyed, isDestroyed, isMounted
  items,        \* the elements of the array ARR
  heap,         \* [uid, shouldObserve, obId, vmCount, kval, kdep, inst, rootVmCount,
                \* vmKeys]: dep.js uid, the
                \* flag of toggleObserving, per object the id of its Observer's
                \* Dep and its vmCount, per key of OBJ its value and its Dep
  val,          \* defineReactive's closure variable val, per property
  childOb,      \* defineReactive's closure variable childOb (0 for none)
  ob,           \* per object: it carries an Observer as __ob__
  subs,         \* Dep.subs, per Dep
  watcher,      \* [Watchers -> fields]: deps, newDeps, depIds, newDepIds, value, active, dirty
  target,       \* Dep.target (a watcher id; 0 for null, UNDEF for undefined)
  targetStack,  \* dep.js targetStack
  queue,        \* scheduler queue
  activatedChildren, \* scheduler activatedChildren
  has,          \* scheduler has
  circular,     \* scheduler circular
  waiting,      \* scheduler waiting
  flushing,     \* scheduler flushing
  index,        \* scheduler index
  callbacks,    \* next-tick callbacks
  pending,      \* next-tick pending
  timers,       \* flushCallbacks invocations the host has scheduled and not started
  resolved,     \* the promises returned by nextTick() that are resolved
  stack,        \* the JavaScript call stack, innermost frame last
  exc,          \* an exception is propagating
  ret,          \* value returned by the frame that returned last
  nreg,         \* number of callbacks user code has registered through nextTick
  fuel,         \* user operations left
  trace         \* history: the observable events so far

vars == <<config, wopt, vm, items, heap, activatedChildren,
          val, childOb, ob, subs, watcher, target, targetStack, queue, has,
          circular, waiting, flushing, index, callbacks, pending, timers, resolved,
          stack, exc, ret, nreg, fuel, trace>>

depVars == <<val, childOb, ob, subs, watcher, target, targetStack>>
Deps == Props \cup Objects \cup Arrays \cup KeyDeps
vmVars == <<vm, items, activatedChildren>>
schedVars == <<queue, has, circular, waiting, flushing, index>>
tickVars == <<callbacks, pending, timers, resolved>>
cfgVars == <<config, wopt>>

(***************************************************************************)
(* Helpers.                                                                *)
(***************************************************************************)
F(k, w, n, s) == [k |-> k, w |-> w, n |-> n, s |-> s]
E(ev, a, b, c) == [ev |-> ev, a |-> a, b |-> b, c |-> c]

Top == stack[Len(stack)]
Pop(st) == SubSeq(st, 1, Len(st) - 1)
Push(st, f) == Append(st, f)
\* the top frame replaced
SetTop(st, f) == [st EXCEPT ![Len(st)] = f]

Running(k) == Len(stack) > 0 /\ ~exc /\ Top.k = k

\* frames that execute user code
UserFrames == {"turn", "tickcb", "watchcb", "getter", "hook", "data", "immediate"}
\* history: the kind of user code an event comes from
FrameCode(k) ==
  CASE k = "turn" -> 0 [] k = "tickcb" -> 1 [] k = "watchcb" -> 2 [] k = "getter" -> 3
    [] k = "hook" -> 4 [] k = "data" -> 5 [] k = "immediate" -> 6
InUser == Len(stack) > 0 /\ ~exc /\ Top.k \in UserFrames /\ fuel > 0

SeqToSet(s) == {s[i] : i \in 1..Len(s)}
Count(s, x) == Cardinality({i \in 1..Len(s) : s[i] = x})

\* Array.prototype.sort((a, b) => a.id - b.id) on distinct or repeated ids
RECURSIVE SortById(_)
SortById(s) ==
  IF Len(s) <= 1 THEN s
  ELSE LET m == CHOOSE i \in 1..Len(s) :
                  /\ \A j \in 1..Len(s) : s[i] <= s[j]
                  /\ \A j \in 1..(i - 1) : s[j] # s[i]
           rest == SubSeq(s, 1, m - 1) \o SubSeq(s, m + 1, Len(s))
       IN <<s[m]>> \o SortById(rest)

\* shared util remove(arr, item): drops the first occurrence, if any
remove(arr, item) ==
  IF \E i \in 1..Len(arr) : arr[i] = item
  THEN LET m == CHOOSE i \in 1..Len(arr) :
                  arr[i] = item /\ \A j \in 1..(i - 1) : arr[j] # item
       IN SubSeq(arr, 1, m - 1) \o SubSeq(arr, m + 1, Len(arr))
  ELSE arr

\* util/error handleError: reports the error to the error handler, returns
handleError(tr, info, id) == Append(tr, E(info, id, 0, 0))

(***************************************************************************)
(* dep.js and the dependency bookkeeping of watcher.js, as functions of    *)
(* the pair st = [subs, watcher].                                          *)
(***************************************************************************)
\* newVal === value, where NaN is not === to itself
StrictEq(x, y) == x = y /\ x # NaN

\* the test of reactiveSetter for a write that changes nothing
sameValueStrict(newVal, value) == StrictEq(newVal, value)
sameValue(newVal, value) ==
  StrictEq(newVal, value) \/ (~StrictEq(newVal, newVal) /\ ~StrictEq(value, value))

St == [subs |-> subs, watcher |-> watcher, vm |-> vm]

\* Dep.addSub
addSub(st, d, w) == [st EXCEPT !.subs[d] = Append(@, w)]

\* Dep.removeSub
removeSub(st, d, w) == [st EXCEPT !.subs[d] = remove(@, w)]

\* Watcher.addDep
addDepTwice(st, w, d) ==
  IF d \notin st.watcher[w].newDepIds
  THEN addSub([st EXCEPT !.watcher[w].newDepIds = @ \cup {d},
                         !.watcher[w].newDeps = Append(@, d)], d, w)
  ELSE st
addDep(st, w, d) ==
  IF d \notin st.watcher[w].newDepIds
  THEN LET st1 == [st EXCEPT !.watcher[w].newDepIds = @ \cup {d},
                             !.watcher[w].newDeps = Append(@, d)]
       IN IF d \notin st.watcher[w].depIds THEN addSub(st1, d, w) ELSE st1
  ELSE st

\* Dep.depend, with Dep.target = t
depend(st, t, d) == IF t \in Watchers THEN addDep(st, t, d) ELSE st

\* the loop of cleanupDeps and of teardown over this.deps, from its end:
\* removeSub on every dep that keep does not hold
RECURSIVE removeSubs(_, _, _, _)
removeSubs(st, w, ds, keep) ==
  IF Len(ds) = 0 THEN st
  ELSE LET d == ds[Len(ds)]
           st1 == IF d \notin keep THEN removeSub(st, d, w) ELSE st
       IN removeSubs(st1, w, SubSeq(ds, 1, Len(ds) - 1), keep)

\* Watcher.cleanupDeps
cleanupDepsKeep(st, w) ==
  [st EXCEPT !.watcher[w].depIds = st.watcher[w].newDepIds,
             !.watcher[w].newDepIds = {},
             !.watcher[w].deps = st.watcher[w].newDeps,
             !.watcher[w].newDeps = <<>>]
cleanupDeps(st, w) ==
  LET st1 == removeSubs(st, w, st.watcher[w].deps, st.watcher[w].newDepIds)
  IN [st1 EXCEPT !.watcher[w].depIds = st.watcher[w].newDepIds,
                 !.watcher[w].newDepIds = {},
                 !.watcher[w].deps = st.watcher[w].newDeps,
                 !.watcher[w].newDeps = <<>>]

\* Watcher.teardown
teardownKeepsSubs(st, w) ==
  IF st.watcher[w].active
  THEN [st EXCEPT !.watcher[w].active = FALSE,
                  !.vm[wopt[w].vm].watchers = remove(@, w)]
  ELSE st
teardown(st, w) ==
  IF st.watcher[w].active
  THEN LET v == wopt[w].vm
           st1 == IF ~st.vm[v].isBeingDestroyed
                  THEN [st EXCEPT !.vm[v].watchers = remove(@, w)]
                  ELSE st
       IN [removeSubs(st1, w, st1.watcher[w].deps, {}) EXCEPT !.watcher[w].active = FALSE]
  ELSE st

\* pushTarget
pushTarget(t) ==
  /\ targetStack' = Append(targetStack, t)
  /\ target' = t

\* pushTarget() without an argument (callHook, getData, $watch): the
\* target pushed is undefined, whatever watcher t is evaluating
noTargetKept(t) == t
noTarget(t) == UNDEF

\* a mutant of popTarget: Dep.target is not set to the top of the stack
popTargetNoRestore ==
  /\ targetStack' = Pop(targetStack)
  /\ target' = UNDEF

\* popTarget: targetStack.pop(); Dep.target = targetStack[length - 1],
\* which is undefined once the stack is empty
popTarget ==
  /\ targetStack' = Pop(targetStack)
  /\ target' = IF Len(targetStack) > 1 THEN targetStack[Len(targetStack) - 1] ELSE UNDEF

\* a mutant of notifySnapshot: the copy is never sorted
notifySnapshotUnsorted(d) == subs[d]

\* Dep.notify: the snapshot of subs that the loop walks
notifySnapshot(d) ==
  IF ~config.production /\ ~config.async THEN SortById(subs[d]) ELSE subs[d]

(***************************************************************************)
(* The property accessors of defineReactive, called by user code.          *)
(***************************************************************************)
\* isObject
isObject(v) == v \in Objects \cup Arrays

\* a mutant of hasObserver: __ob__ is never found
hasObserverNever(o, v) == FALSE

\* hasOwn(value, '__ob__') && value.__ob__ instanceof Observer
hasObserver(o, v) == o[v]

\* observe(value): the Observer of an object (the one it carries, or one
\* made now if shouldObserve), nothing for a primitive value
observe(v) == IF isObject(v) /\ (hasObserver(ob, v) \/ heap.shouldObserve) THEN v ELSE 0

\* the keys OBJ has, in the order Object.keys gives them
ownKeys(h) == SelectSeq(<<1, 2>>, LAMBDA k : h.kval[k] # ABSENT)

\* defineReactive(obj, key, val): new Dep(), and the accessors of key over
\* the closure variable val
defineReactive(h, k, v) ==
  [h EXCEPT !.uid = @ + 1, !.kdep[k] = KeyDep(h.uid), !.kval[k] = v]

\* Observer.walk: defineReactive(obj, keys[i])
RECURSIVE walk(_, _)
walk(h, ks) ==
  IF Len(ks) = 0 THEN h ELSE walk(defineReactive(h, ks[1], h.kval[ks[1]]), Tail(ks))

\* new Observer(v): this.dep = new Dep(), def(value, '__ob__', this), and
\* walk(value) of a plain object (observeArray of an array: below)
newObserver(h, v) ==
  LET h1 == [h EXCEPT !.uid = @ + 1, !.obId[v] = h.uid]
  IN IF v \in Objects THEN walk(h1, ownKeys(h1)) ELSE h1

\* the heap after ob.observeArray(es), o telling who carries an Observer
RECURSIVE observeArrayHeap(_, _, _)
observeArrayHeap(h, o, es) ==
  IF Len(es) = 0 THEN h
  ELSE LET new == isObject(es[1]) /\ ~hasObserver(o, es[1]) /\ h.shouldObserve
       IN observeArrayHeap(IF new THEN newObserver(h, es[1]) ELSE h,
                           IF new THEN [o EXCEPT ![es[1]] = TRUE] ELSE o, Tail(es))

\* the heap after observe(v)
heapObserved(h, o, v) ==
  IF ~isObject(v) \/ hasObserver(o, v) \/ ~h.shouldObserve THEN h
  ELSE IF v \in Arrays
       THEN observeArrayHeap(newObserver(h, v), [o EXCEPT ![v] = TRUE], items)
       ELSE newObserver(h, v)
\* ob.observeArray(items): observe(items[i]) for each element (the
\* elements of the model are no arrays)
RECURSIVE observeArray(_, _)
observeArray(o, es) ==
  IF Len(es) = 0 THEN o
  ELSE observeArray(IF isObject(es[1]) /\ heap.shouldObserve
                    THEN [o EXCEPT ![es[1]] = TRUE] ELSE o, Tail(es))
\* the observers after observe(v): new Observer(v) observes the elements
\* of an array
observed(o, v) ==
  IF ~isObject(v) \/ ~heap.shouldObserve THEN o
  ELSE IF v \in Arrays /\ ~o[v] THEN observeArray([o EXCEPT ![v] = TRUE], items)
  ELSE [o EXCEPT ![v] = TRUE]

\* the elements e of the array with e && e.__ob__
observedElems(its) == SelectSeq(its, LAMBDA e : isObject(e) /\ ob[e])

\* dependArray(value): e.__ob__.dep.depend() for the elements that have
\* an observer (the elements of the model are no arrays)
RECURSIVE dependEach(_, _, _)
dependEach(st, t, es) ==
  IF Len(es) = 0 THEN st ELSE dependEach(depend(st, t, es[1]), t, Tail(es))
dependArray(st, t, its) == dependEach(st, t, observedElems(its))

\* a mutant of track: childOb is ignored
trackOwnDep(st, t, p) == IF t # 0 THEN depend(st, t, p) ELSE st

\* the dependency collection of reactiveGetter with Dep.target = t:
\* dep.depend(), and childOb.dep.depend() if there is a child observer,
\* and dependArray(value) if the value is an array
track(st, t, p) ==
  IF t \in Watchers
  THEN LET st1 == depend(st, t, p)
       IN IF childOb[p] # 0
          THEN LET st2 == depend(st1, t, childOb[p])
               IN IF val[p] \in Arrays THEN dependArray(st2, t, items) ELSE st2
          ELSE st1
  ELSE st

\* the Deps whose depend() a read of obj.p calls
tracked(p) ==
  IF childOb[p] # 0
  THEN <<p, childOb[p]>> \o (IF val[p] \in Arrays THEN observedElems(items) ELSE <<>>)
  ELSE <<p>>

\* History: the frames of the passes of Watcher.get of t that are under way
\* record in s the Deps whose depend() ran with Dep.target = t.
RECURSIVE noted(_, _)
noted(s, ds) ==
  IF Len(ds) = 0 THEN s
  ELSE noted(IF ds[1] \in SeqToSet(s) THEN s ELSE Append(s, ds[1]), Tail(ds))
note(stk, t, ds) ==
  [i \in 1..Len(stk) |->
     IF stk[i].k = "get" /\ stk[i].w = t /\ stk[i].n >= 1
     THEN [stk[i] EXCEPT !.s = noted(@, ds)] ELSE stk[i]]
\* History: a pass of w ended inside the passes of w still under way; they
\* record REENTERED
REENTERED == 0
reentered(stk, w) == note(stk, w, <<REENTERED>>)

\* reactiveGetter: user code reads obj.p
reactiveGetter(p) ==
  /\ InUser
  /\ target \in Watchers
  /\ fuel' = fuel - 1
  /\ LET st == track(St, target, p)
     IN subs' = st.subs /\ watcher' = st.watcher
  /\ stack' = note(stack, target, tracked(p))
  /\ UNCHANGED <<cfgVars, heap, vmVars, val, childOb, ob, target, targetStack, schedVars,
                 tickVars, exc, ret, nreg, trace>>

\* reactiveGetter with no Dep.target: the value is returned and depend()
\* is not called.  History: the read is recorded.
reactiveGetterNoTarget(p) ==
  /\ InUser
  /\ target \notin Watchers
  /\ fuel' = fuel - 1
  /\ trace' = Append(trace, E("read", p, FrameCode(Top.k), 0))
  /\ UNCHANGED <<cfgVars, heap, vmVars, depVars, schedVars, tickVars, stack, exc, ret, nreg>>

\* reactiveSetter: user code writes obj.p = v
assign(p, v, stk) ==
  /\ IF sameValue(v, val[p])
     THEN /\ trace' = Append(trace, E("set", p, v, 0))
          /\ stack' = stk
          /\ UNCHANGED <<val, childOb, ob, heap>>
     ELSE /\ val' = [val EXCEPT ![p] = v]
          /\ childOb' = [childOb EXCEPT ![p] = observe(v)]
          /\ ob' = observed(ob, v)
          /\ heap' = heapObserved(heap, ob, v)
          /\ stack' = Push(stk, F("notify", p, 0, notifySnapshot(p)))
          /\ trace' = Append(trace, E("set", p, v, 1))
  /\ UNCHANGED <<cfgVars, vmVars, subs, watcher, target, targetStack, schedVars,
                 tickVars, exc, ret, nreg>>

reactiveSetter(p, v) ==
  /\ InUser
  /\ fuel' = fuel - 1
  /\ assign(p, v, stack)

(***************************************************************************)
(* observe, set and del, called by user code on the plain object OBJ.      *)
(***************************************************************************)
\* toggleObserving(value)
toggleObserving(h, b) == [h EXCEPT !.shouldObserve = b]

\* initProps of a vm that has a parent and one prop, whose value is v:
\* toggleObserving(false), defineReactive(props, key, v) with its new Dep
\* and its observe(v), toggleObserving(true).  The event tells the Dep id
\* of the Observer that observe(v) returned.
initProps(v) ==
  /\ InUser
  /\ fuel' = fuel - 1
  /\ LET h0 == toggleObserving(heap, FALSE)
         h1 == heapObserved([h0 EXCEPT !.uid = @ + 1], ob, v)
     IN /\ heap' = toggleObserving(h1, TRUE)
        /\ trace' = Append(trace, E("observeProp", v, h1.obId[v], h1.uid - (heap.uid + 1)))
  /\ UNCHANGED <<cfgVars, vmVars, depVars, schedVars, tickVars, stack, exc, ret, nreg>>

\* a vm made by user code with the data object o: it has no watcher, no
\* parent and no hook
newInstance(o) == [data |-> o, destroyed |-> FALSE]

\* observe(v, asRootData), called for Vue.observable(v) and, by initData,
\* for the data of a new vm, which heap.inst records; the event tells the
\* Dep id of the Observer returned and the number of Deps the call made
UserObserve(v, asRootData) ==
  /\ InUser
  /\ fuel' = fuel - 1
  /\ ob' = observed(ob, v)
  /\ LET h0 == heapObserved(heap, ob, v)
         h == IF asRootData THEN [h0 EXCEPT !.inst = Append(@, newInstance(v))] ELSE h0
     IN heap' = IF asRootData /\ h.obId[v] # UNDEF
                THEN [h EXCEPT !.vmCount[v] = @ + 1] ELSE h
  /\ ret' = heap'.obId[v]
  /\ trace' = Append(trace, E("observe", v, heap'.obId[v], heap'.uid - heap.uid))
  /\ UNCHANGED <<cfgVars, vmVars, val, childOb, subs, watcher, target, targetStack,
                 schedVars, tickVars, stack, exc, nreg>>

\* user code reads OBJ.k: reactiveGetter of the key if k is reactive
keyGetter(k) ==
  /\ InUser
  /\ target \in Watchers
  /\ heap.kval[k] # ABSENT
  /\ fuel' = fuel - 1
  /\ IF heap.kdep[k] # 0
     THEN /\ LET st == depend(St, target, heap.kdep[k])
             IN subs' = st.subs /\ watcher' = st.watcher
          /\ stack' = note(stack, target, <<heap.kdep[k]>>)
     ELSE UNCHANGED <<subs, watcher, stack>>
  /\ trace' = Append(trace, E("getKey", k, heap.kval[k], target))
  /\ UNCHANGED <<cfgVars, heap, vmVars, val, childOb, ob, target, targetStack, schedVars,
                 tickVars, exc, ret, nreg>>

\* target[key] = val: reactiveSetter of the key if k is reactive, else a
\* plain property is written (or made); the event tells the Dep notified
putKey(k, v, ev) ==
  IF heap.kdep[k] # 0 /\ ~sameValue(v, heap.kval[k])
  THEN /\ heap' = [heap EXCEPT !.kval[k] = v]
       /\ stack' = Push(stack, F("notify", heap.kdep[k], 0, notifySnapshot(heap.kdep[k])))
       /\ trace' = Append(trace, E(ev, k, v, heap.kdep[k]))
  ELSE /\ heap' = IF heap.kdep[k] # 0 THEN heap ELSE [heap EXCEPT !.kval[k] = v]
       /\ stack' = stack
       /\ trace' = Append(trace, E(ev, k, v, 0))

\* user code writes OBJ.k = v
keySetter(k, v) ==
  /\ InUser
  /\ fuel' = fuel - 1
  /\ putKey(k, v, "putKey")
  /\ UNCHANGED <<cfgVars, vmVars, depVars, schedVars, tickVars, exc, ret, nreg>>

\* a mutant of isRoot: nothing is guarded
isRootNever(isVue, o) == FALSE

\* target._isVue || (ob && ob.vmCount) of set and del
isRoot(isVue, o) == isVue \/ (ob[o] /\ heap.vmCount[o] > 0)

\* a mutant of set: the new key is made a plain property
setPlain(k, v) ==
  /\ heap' = [heap EXCEPT !.kval[k] = v]
  /\ stack' = Push(stack, F("notify", OBJ, 0, notifySnapshot(OBJ)))
  /\ trace' = Append(trace, E("setKey", k, v, OBJ))

\* defineReactive(ob.value, key, val); ob.dep.notify() of set
setNew(k, v) ==
  /\ heap' = defineReactive(heap, k, v)
  /\ stack' = Push(stack, F("notify", OBJ, 0, notifySnapshot(OBJ)))
  /\ trace' = Append(trace, E("setKey", k, v, OBJ))

\* set(OBJ, k, v)
set(k, v) ==
  /\ InUser
  /\ fuel' = fuel - 1
  /\ IF heap.kval[k] # ABSENT THEN putKey(k, v, "setKey")
     ELSE IF isRoot(FALSE, OBJ)
     THEN /\ trace' = Append(trace, E("setKey", k, v, 0))
          /\ UNCHANGED <<heap, stack>>
     ELSE IF ~ob[OBJ] THEN putKey(k, v, "setKey")
     ELSE setNew(k, v)
  /\ UNCHANGED <<cfgVars, vmVars, depVars, schedVars, tickVars, exc, ret, nreg>>

\* a mutant of delNotify: nobody is notified
delSilent(k) == stack' = stack /\ trace' = Append(trace, E("del", k, 1, OBJ))

\* ob.dep.notify() of del
delNotify(k) ==
  /\ stack' = Push(stack, F("notify", OBJ, 0, notifySnapshot(OBJ)))
  /\ trace' = Append(trace, E("del", k, 1, OBJ))

\* del(OBJ, k); the event tells whether the key was removed and the Dep
\* notified
del(k) ==
  /\ InUser
  /\ fuel' = fuel - 1
  /\ IF isRoot(FALSE, OBJ) \/ heap.kval[k] = ABSENT
     THEN /\ trace' = Append(trace, E("del", k, 0, 0))
          /\ UNCHANGED <<heap, stack>>
     ELSE /\ heap' = [heap EXCEPT !.kval[k] = ABSENT, !.kdep[k] = 0]
          /\ IF ~ob[OBJ]
             THEN /\ trace' = Append(trace, E("del", k, 1, 0))
                  /\ stack' = stack
             ELSE delNotify(k)
  /\ UNCHANGED <<cfgVars, vmVars, depVars, schedVars, tickVars, exc, ret, nreg>>

\* set(vm, k, v) of a key the vm does not have: the vm carries no
\* Observer, so that past the guard the key would be made a plain property
setVm(v, k, x) ==
  /\ InUser
  /\ <<v, k>> \notin heap.vmKeys
  /\ fuel' = fuel - 1
  /\ heap' = IF isRoot(TRUE, OBJ) THEN heap ELSE [heap EXCEPT !.vmKeys = @ \cup {<<v, k>>}]
  /\ trace' = Append(trace, E("setVm", v, k, x))
  /\ UNCHANGED <<cfgVars, vmVars, depVars, schedVars, tickVars, stack, exc, ret, nreg>>

\* del(vm, k)
delVm(v, k) ==
  /\ InUser
  /\ fuel' = fuel - 1
  /\ heap' = IF isRoot(TRUE, OBJ) THEN heap ELSE [heap EXCEPT !.vmKeys = @ \ {<<v, k>>}]
  /\ trace' = Append(trace, E("delVm", v, k, 0))
  /\ UNCHANGED <<cfgVars, vmVars, depVars, schedVars, tickVars, stack, exc, ret, nreg>>

(***************************************************************************)
(* array.js: the patched mutators of an observed array.                    *)
(***************************************************************************)
methodsToPatch == <<"push", "pop", "shift", "unshift", "splice", "sort", "reverse">>
Method(m) == CHOOSE i \in 1..Len(methodsToPatch) : methodsToPatch[i] = m

\* Array.prototype.sort with the default comparison: the values of the
\* model are numbers of one digit and an object, whose string is greater
RECURSIVE sorted(_)
sorted(a) ==
  IF Len(a) = 0 THEN <<>>
  ELSE LET i == CHOOSE i \in 1..Len(a) : \A j \in 1..Len(a) :
                   a[i] < a[j] \/ (a[i] = a[j] /\ i <= j)
       IN <<a[i]>> \o sorted(SubSeq(a, 1, i - 1) \o SubSeq(a, i + 1, Len(a)))
reversed(a) == [i \in 1..Len(a) |-> a[Len(a) + 1 - i]]

\* original.apply(this, args): the array after the call; args holds the
\* values given, and for splice start and deleteCount before them
original(m, a, args) ==
  CASE m = "push" -> a \o args
    [] m = "pop" -> IF Len(a) = 0 THEN a ELSE SubSeq(a, 1, Len(a) - 1)
    [] m = "shift" -> IF Len(a) = 0 THEN a ELSE Tail(a)
    [] m = "unshift" -> args \o a
    [] m = "splice" ->
         LET start == IF args[1] > Len(a) THEN Len(a) ELSE args[1]
             count == IF args[2] > Len(a) - start THEN Len(a) - start ELSE args[2]
         IN SubSeq(a, 1, start) \o SubSeq(args, 3, Len(args))
              \o SubSeq(a, start + count + 1, Len(a))
    [] m = "sort" -> sorted(a)
    [] m = "reverse" -> reversed(a)

\* the values the call adds to the array
inserted(m, args) ==
  CASE m \in {"push", "unshift"} -> args
    [] m = "splice" -> SubSeq(args, 3, Len(args))
    [] OTHER -> <<>>

\* the arguments user code gives to method m of an array a
ArgsOf(m, a) ==
  CASE m = "push" -> {<<OBJ>>}
    [] m = "unshift" -> {<<1>>}
    [] m = "splice" -> {<<0, 1>>, <<Len(a), 1, 1>>}
    [] OTHER -> {<<>>}

\* user code calls a patched method of the observed array
mutator(m, args) ==
  /\ InUser
  /\ ob[ARR]
  /\ Len(original(m, items, args)) <= MaxItems
  /\ fuel' = fuel - 1
  /\ items' = original(m, items, args)
  /\ ob' = observeArray(ob, inserted(m, args))
  /\ heap' = observeArrayHeap(heap, ob, inserted(m, args))
  /\ stack' = Push(stack, F("notify", ARR, 0, notifySnapshot(ARR)))
  /\ trace' = Append(trace, E("mutator", ARR, Method(m), 0))
  /\ UNCHANGED <<cfgVars, vm, activatedChildren, val, childOb, subs, watcher, target,
                 targetStack, schedVars, tickVars, exc, ret, nreg>>

\* user code calls watcher.teardown() (the unwatch function of $watch)
UserTeardown(w) ==
  /\ InUser
  /\ fuel' = fuel - 1
  /\ LET st == teardown(St, w)
     IN subs' = st.subs /\ watcher' = st.watcher /\ vm' = st.vm
  /\ trace' = Append(trace, E("teardown", w, 0, 0))
  /\ UNCHANGED <<cfgVars, heap, items, activatedChildren, val, childOb, ob, target,
                 targetStack, schedVars, tickVars, stack, exc, ret, nreg>>

\* teardown(st, ws[1]), teardown(.., ws[2]), ...
RECURSIVE teardownAll(_, _)
teardownAll(st, ws) ==
  IF Len(ws) = 0 THEN st ELSE teardownAll(teardown(st, ws[1]), Tail(ws))

\* the watchers of vm v in the order $destroy tears them down: vm._watcher,
\* then vm._watchers from the last to the first
destroyOrder(v) ==
  LET ws == vm[v].watchers
      rev == [i \in 1..Len(ws) |-> ws[Len(ws) + 1 - i]]
  IN SelectSeq(rev, LAMBDA w : wopt[w].render) \o rev

\* vm._data.__ob__.vmCount-- of $destroy
vmCountLeft(n) == n - 1

\* user code calls vm.$destroy(): nothing when the vm is being destroyed;
\* else _isBeingDestroyed = true, the watchers are torn down, the Observer
\* of the root data, which the vms share, loses one vm, _isDestroyed =
\* true.  (The vm has no parent, and no handler of the hooks beforeDestroy
\* and destroyed.)
UserDestroy(v) ==
  /\ InUser
  /\ fuel' = fuel - 1
  /\ IF vm[v].isBeingDestroyed
     THEN UNCHANGED <<subs, watcher, vm, heap>>
     ELSE LET st0 == [St EXCEPT !.vm[v].isBeingDestroyed = TRUE]
              st == teardownAll(st0, destroyOrder(v))
          IN /\ subs' = st.subs
             /\ watcher' = st.watcher
             /\ heap' = [heap EXCEPT !.rootVmCount = vmCountLeft(@)]
             /\ vm' = [st.vm EXCEPT ![v].isDestroyed = TRUE]
  /\ trace' = Append(trace, E("destroy", v, 0, 0))
  /\ UNCHANGED <<cfgVars, items, activatedChildren, val, childOb, ob, target,
                 targetStack, schedVars, tickVars, stack, exc, ret, nreg>>

\* a mutant of destroyedNow: a vm destroyed before is destroyed again
destroyedNowAgain(i) == TRUE

\* if (vm._isBeingDestroyed) return, of $destroy
destroyedNow(i) == ~heap.inst[i].destroyed

\* vm.$destroy() of the i-th vm made by user code: it has no watcher to
\* tear down, and the Observer of its data loses one vm
UserDestroyInstance(i) ==
  /\ InUser
  /\ i \in 1..Len(heap.inst)
  /\ fuel' = fuel - 1
  /\ LET o == heap.inst[i].data
     IN heap' = IF destroyedNow(i)
                THEN [heap EXCEPT !.inst[i].destroyed = TRUE,
                                  !.vmCount[o] = IF heap.obId[o] # UNDEF THEN vmCountLeft(@) ELSE @]
                ELSE heap
  /\ trace' = Append(trace, E("destroyInstance", i, 0, 0))
  /\ UNCHANGED <<cfgVars, vmVars, depVars, schedVars, tickVars, stack, exc, ret, nreg>>

(***************************************************************************)
(* next-tick.js                                                            *)
(***************************************************************************)
\* callbacks.push(wrapper of cb)
unshiftCallback(cbs, cb) == <<cb>> \o cbs
pushCallback(cbs, cb) == Append(cbs, cb)

\* if (!pending): no flushCallbacks is scheduled yet
needsTimerAlways(p) == TRUE
needsTimerNever(p) == FALSE
needsTimer(p) == ~p

\* nextTick(cb): push the wrapper, and call timerFunc unless a
\* flushCallbacks is already scheduled
nextTick(cb) ==
  /\ callbacks' = pushCallback(callbacks, cb)
  /\ pending' = TRUE
  /\ timers' = IF needsTimer(pending) THEN timers + 1 ELSE timers
  /\ trace' = Append(trace, E("nextTick", cb, 0, 0))
                 \o (IF needsTimer(pending) THEN <<E("timerFunc", 0, 0, 0)>> ELSE <<>>)
  /\ UNCHANGED resolved

\* callbacks.length = 0 once the copies are taken
keptCallbacks(cbs) == cbs
clearedCallbacks(cbs) == <<>>

\* try { cb.call(ctx) } catch (e) { ... } of the wrapper, for a wrapper
\* that has a cb
tickGuardedNever(cb) == FALSE
tickGuarded(cb) == cb # UNDEF

\* The host runs a scheduled flushCallbacks: pending = false, the list is
\* copied and cleared, and the loop over the copies starts.
flushCallbacks ==
  /\ Len(stack) = 0 /\ ~exc
  /\ timers > 0
  /\ timers' = timers - 1
  /\ pending' = FALSE
  /\ callbacks' = clearedCallbacks(callbacks)
  /\ stack' = <<F("flushCallbacks", 0, 0, callbacks)>>
  /\ trace' = Append(trace, E("flushCallbacks", 0, 0, 0))
  /\ UNCHANGED <<cfgVars, heap, vmVars, depVars, schedVars, resolved, exc, ret, nreg, fuel>>

\* copies[i]() for a wrapper of a user callback: cb.call(ctx) inside try
CallTickCallback ==
  /\ Running("flushCallbacks")
  /\ Top.n < Len(Top.s)
  /\ Top.s[Top.n + 1] > 0
  /\ stack' = Push(SetTop(stack, [Top EXCEPT !.n = @ + 1]),
                   F("tickcb", Top.s[Top.n + 1], 0, <<>>))
  /\ trace' = Append(trace, E("tick", Top.s[Top.n + 1], 0, 0))
  /\ UNCHANGED <<cfgVars, heap, vmVars, depVars, schedVars, tickVars, exc, ret, nreg, fuel>>

\* the callbacks entry of the n-th call of nextTick, made without a cb
\* (the entry of a call with a cb is n, that of the scheduler is FLUSH)
PromiseEntry(n) == 0 - n - 1
PromiseOf(entry) == 0 - entry - 1
isPromiseEntry(entry) == entry < UNDEF

\* a mutant of settled: _resolve changes nothing
settledNever(r, n) == r

\* _resolve(ctx): the promise is resolved
settled(r, n) == r \cup {n}

\* copies[i]() for a wrapper without cb: _resolve(ctx)
ResolveTick ==
  /\ Running("flushCallbacks")
  /\ Top.n < Len(Top.s)
  /\ isPromiseEntry(Top.s[Top.n + 1])
  /\ stack' = SetTop(stack, [Top EXCEPT !.n = @ + 1])
  /\ resolved' = settled(resolved, PromiseOf(Top.s[Top.n + 1]))
  /\ trace' = trace \o <<E("tick", Top.s[Top.n + 1], 0, 0),
                          E("resolve", PromiseOf(Top.s[Top.n + 1]), 0, 0)>>
  /\ UNCHANGED <<cfgVars, heap, vmVars, depVars, schedVars, callbacks, pending, timers,
                 exc, ret, nreg, fuel>>

\* the loop of flushCallbacks has run every copy
FlushCallbacksDone ==
  /\ Running("flushCallbacks")
  /\ Top.n = Len(Top.s)
  /\ stack' = Pop(stack)
  /\ trace' = Append(trace, E("flushCallbacksEnd", 0, 0, 0))
  /\ UNCHANGED <<cfgVars, heap, vmVars, depVars, schedVars, tickVars, exc, ret, nreg, fuel>>

\* catch (e) { handleError(e, ctx, 'nextTick') } of the wrapper: the
\* exception reached the frame of flushCallbacks that called the wrapper
CatchInTick ==
  /\ exc
  /\ Len(stack) > 0
  /\ Top.k = "flushCallbacks" /\ tickGuarded(Top.s[Top.n])
  /\ exc' = FALSE
  /\ trace' = handleError(trace, "error nextTick", Top.s[Top.n])
  /\ UNCHANGED <<cfgVars, heap, vmVars, depVars, schedVars, tickVars, stack, ret, nreg, fuel>>

(***************************************************************************)
(* scheduler.js                                                            *)
(***************************************************************************)
MAX_UPDATE_COUNT == 100

\* a mutant of splicePos: the scan does not stop at the cursor
RECURSIVE splicePosAnywhere(_, _, _, _)
splicePosAnywhere(q, idx, id, i) ==
  IF i >= 0 /\ q[i + 1] > id THEN splicePosAnywhere(q, idx, id, i - 1) ELSE i

\* a mutant of splicePos: the watcher is put at the end of the queue
splicePosLast(q, idx, id, i) == i

\* the position after which queueWatcher splices a watcher during a flush:
\* let i = queue.length - 1; while (i > index && queue[i].id > id) i--
RECURSIVE splicePos(_, _, _, _)
splicePos(q, idx, id, i) ==
  IF i > idx /\ q[i + 1] > id THEN splicePos(q, idx, id, i - 1) ELSE i

\* queue.splice(i + 1, 0, watcher)
spliceIn(q, i, w) == SubSeq(q, 1, i + 1) \o <<w>> \o SubSeq(q, i + 2, Len(q))

\* the queue after queueWatcher has put w in
enqueue(q, w) ==
  IF ~flushing THEN Append(q, w)
  ELSE spliceIn(q, splicePos(q, index, w, Len(q) - 1), w)

\* history: a flush starts with these watchers in the queue, in this order
flushEvents(q) == <<E("flush", 0, 0, 0)>> \o [i \in 1..Len(q) |-> E("pending", q[i], 0, 0)]

\* queue.sort((a, b) => a.id - b.id)
sortQueueNot(q) == q
sortQueue(q) == SortById(q)

\* the entry of flushSchedulerQueue: flushing = true, the queue sorted
beginFlush(q) ==
  /\ flushing' = TRUE
  /\ queue' = sortQueue(q)
  /\ index' = 0

resetKeepingWaiting ==
  /\ index' = 0
  /\ queue' = <<>>
  /\ activatedChildren' = <<>>
  /\ has' = [w \in Watchers |-> FALSE]
  /\ circular' = IF ~config.production THEN [w \in Watchers |-> 0] ELSE circular
  /\ flushing' = FALSE
  /\ UNCHANGED waiting
resetKeepingHas ==
  /\ index' = 0
  /\ queue' = <<>>
  /\ activatedChildren' = <<>>
  /\ circular' = IF ~config.production THEN [w \in Watchers |-> 0] ELSE circular
  /\ waiting' = FALSE
  /\ flushing' = FALSE
  /\ UNCHANGED has
\* resetSchedulerState
resetSchedulerState ==
  /\ index' = 0
  /\ queue' = <<>>
  /\ activatedChildren' = <<>>
  /\ has' = [w \in Watchers |-> FALSE]
  /\ circular' = IF ~config.production THEN [w \in Watchers |-> 0] ELSE circular
  /\ waiting' = FALSE
  /\ flushing' = FALSE

\* has[id] == null, negated: the watcher is already in the queue
isQueuedNever(w) == FALSE
isQueued(w) == has[w]

\* if (!waiting): no flush is requested yet
needsFlushAlways(wt) == TRUE
needsFlush(wt) == ~wt

\* has[id] = true
markQueuedNot(h, w) == h
markQueued(h, w) == [h EXCEPT ![w] = TRUE]

\* queueWatcher(w), called by update(); the caller's frame is already
\* advanced in st (the stack as the call leaves it)
queueWatcher(w, st) ==
  IF isQueued(w)
  THEN /\ stack' = st
       /\ UNCHANGED <<schedVars, tickVars, trace>>
  ELSE /\ has' = markQueued(has, w)
       /\ IF ~needsFlush(waiting)
          THEN /\ queue' = enqueue(queue, w)
               /\ stack' = st
               /\ UNCHANGED <<circular, waiting, flushing, index, tickVars, trace>>
          ELSE /\ waiting' = TRUE
               /\ IF ~config.production /\ ~config.async
                  THEN /\ beginFlush(enqueue(queue, w))
                       /\ stack' = Push(st, F("flushSchedulerQueue", 0, 0, <<>>))
                       /\ trace' = trace \o flushEvents(enqueue(queue, w))
                       /\ UNCHANGED <<circular, tickVars>>
                  ELSE /\ queue' = enqueue(queue, w)
                       /\ stack' = st
                       /\ nextTick(FLUSH)
                       /\ UNCHANGED <<circular, flushing, index>>

\* copies[i]() for the wrapper of flushSchedulerQueue
CallFlushSchedulerQueue ==
  /\ Running("flushCallbacks")
  /\ Top.n < Len(Top.s)
  /\ Top.s[Top.n + 1] = FLUSH
  /\ beginFlush(queue)
  /\ stack' = Push(SetTop(stack, [Top EXCEPT !.n = @ + 1]),
                   F("flushSchedulerQueue", 0, 0, <<>>))
  /\ trace' = Append(trace, E("tick", FLUSH, 0, 0)) \o flushEvents(queue)
  /\ UNCHANGED <<cfgVars, heap, vmVars, depVars, has, circular, waiting, tickVars, exc, ret,
                 nreg, fuel>>

\* the before option of a watcher: the render watcher of a vm is made with
\* before () { if (vm._isMounted && !vm._isDestroyed) callHook(vm, 'beforeUpdate') }
hasBefore(w) == wopt[w].render
callsBeforeUpdate(w) == vm[wopt[w].vm].isMounted /\ ~vm[wopt[w].vm].isDestroyed

\* one turn of the for loop up to the call of watcher.run(): the loop
\* test, watcher.before() if there is one (the frame waits at n = 4 for
\* it to return), then has[id] = null, and run() entered
FlushRunNext ==
  /\ Running("flushSchedulerQueue")
  /\ Top.n \in {0, 4}
  /\ index < Len(queue)
  /\ LET id == queue[index + 1]
     IN IF Top.n = 0 /\ hasBefore(id)
        THEN /\ trace' = Append(trace, E("before", id, 0, 0))
             /\ IF callsBeforeUpdate(id)
                THEN /\ stack' = SetTop(stack, [Top EXCEPT !.n = 4])
                                   \o <<F("callHook", wopt[id].vm, 1, <<>>),
                                        F("hook", wopt[id].vm, 3, <<>>)>>
                     /\ pushTarget(noTarget(target))
                ELSE /\ stack' = SetTop(stack, [Top EXCEPT !.n = 4])
                     /\ UNCHANGED <<target, targetStack>>
             /\ UNCHANGED has
        ELSE /\ has' = [has EXCEPT ![id] = FALSE]
             /\ stack' = Push(SetTop(stack, [Top EXCEPT !.n = 1, !.w = id]),
                              F("run", id, 0, <<>>))
             /\ trace' = Append(trace, E("run", id, 0, 0))
             /\ UNCHANGED <<target, targetStack>>
  /\ UNCHANGED <<cfgVars, heap, vmVars, val, childOb, ob, subs, watcher, queue, circular,
                 waiting, flushing, index, tickVars, exc, ret, nreg, fuel>>

\* if (circular[id] > MAX_UPDATE_COUNT), with n the count just incremented
tooManyAtLimit(n) == n >= MAX_UPDATE_COUNT
tooMany(n) == n > MAX_UPDATE_COUNT

\* after watcher.run() returned: the test for circular updates, index++
FlushAfterRun ==
  /\ Running("flushSchedulerQueue")
  /\ Top.n = 1
  /\ LET id == Top.w
     IN IF ~config.production /\ has[id]
        THEN /\ circular' = [circular EXCEPT ![id] = @ + 1]
             /\ IF tooMany(circular[id] + 1)
                THEN /\ stack' = SetTop(stack, [Top EXCEPT !.n = 2])
                     /\ trace' = Append(trace, E("warn loop", id, 0, 0))
                     /\ UNCHANGED index
                ELSE /\ stack' = SetTop(stack, [Top EXCEPT !.n = 0])
                     /\ index' = index + 1
                     /\ UNCHANGED trace
        ELSE /\ stack' = SetTop(stack, [Top EXCEPT !.n = 0])
             /\ index' = index + 1
             /\ UNCHANGED <<circular, trace>>
  /\ UNCHANGED <<cfgVars, heap, vmVars, depVars, queue, has, waiting, flushing, tickVars,
                 exc, ret, nreg, fuel>>

\* a mutant of postQueues: callUpdatedHooks walks the queue from its start
postQueuesForward(ac, q) == ac \o [i \in 1..Len(q) |-> 0 - q[i]]

\* const activatedQueue = activatedChildren.slice(), updatedQueue =
\* queue.slice(): the entries whose hooks are called after the reset, in
\* the order of the calls.  An activated vm is entered as its number;
\* callUpdatedHooks walks the queue from its end: a watcher is entered as
\* minus its id.
postQueues(ac, q) == ac \o [i \in 1..Len(q) |-> 0 - q[Len(q) + 1 - i]]

\* the loop is over (or was left by break): the copies, resetSchedulerState
FlushFinish ==
  /\ Running("flushSchedulerQueue")
  /\ (Top.n = 0 /\ index >= Len(queue)) \/ Top.n = 2
  /\ resetSchedulerState
  /\ stack' = SetTop(stack, [Top EXCEPT !.n = 3, !.w = 0,
                                        !.s = postQueues(activatedChildren, queue)])
  /\ trace' = Append(trace, E("flushEnd", 0, 0, 0))
  /\ UNCHANGED <<cfgVars, heap, vm, items, depVars, tickVars, exc, ret, nreg, fuel>>

\* the vm of an entry of the copies, and its hook: 1 activated, 2 updated
hookVm(e) == IF e > 0 THEN e ELSE wopt[-e].vm
hookKind(e) == IF e > 0 THEN 1 ELSE 2
\* callActivatedHooks calls the hook of every entry (it sets _inactive =
\* true before activateChildComponent(vm, true); the vm has no parent);
\* callUpdatedHooks: if (vm._watcher === watcher && vm._isMounted &&
\* !vm._isDestroyed) callHook(vm, 'updated')
callsHook(e) ==
  \/ e > 0
  \/ e < 0 /\ wopt[-e].render /\ vm[hookVm(e)].isMounted /\ ~vm[hookVm(e)].isDestroyed
\* the next entry after entry c whose hook is called, 0 if there is none
nextHook(s, c) ==
  LET is == {i \in (c + 1)..Len(s) : callsHook(s[i])}
  IN IF is = {} THEN 0 ELSE CHOOSE i \in is : \A j \in is : i <= j

\* callActivatedHooks and callUpdatedHooks: callHook(vm, hook) of the next
\* entry: pushTarget(), the handler is invoked
FlushCallHook ==
  /\ Running("flushSchedulerQueue")
  /\ Top.n = 3
  /\ nextHook(Top.s, Top.w) # 0
  /\ LET i == nextHook(Top.s, Top.w)
         e == Top.s[i]
     IN /\ stack' = SetTop(stack, [Top EXCEPT !.w = i])
                       \o <<F("callHook", hookVm(e), 1, <<>>),
                            F("hook", hookVm(e), hookKind(e), <<>>)>>
        /\ trace' = Append(trace, E("hook", hookVm(e), hookKind(e), 0))
  /\ pushTarget(noTarget(target))
  /\ UNCHANGED <<cfgVars, heap, vmVars, val, childOb, ob, subs, watcher, schedVars,
                 tickVars, exc, ret, nreg, fuel>>

\* callHook after the handler returned: popTarget()
CallHookDone ==
  /\ Running("callHook")
  /\ popTarget
  /\ stack' = Pop(stack)
  /\ UNCHANGED <<cfgVars, heap, vmVars, val, childOb, ob, subs, watcher, schedVars,
                 tickVars, exc, ret, nreg, fuel, trace>>

\* callHook(vm, hook) called while user code runs (a component is made,
\* mounted or destroyed by it): pushTarget(), the handler is invoked
UserCallHook(v) ==
  /\ InUser
  /\ fuel' = fuel - 1
  /\ pushTarget(noTarget(target))
  /\ stack' = stack \o <<F("callHook", v, 1, <<>>), F("hook", v, 4, <<>>)>>
  /\ trace' = Append(trace, E("hook", v, 4, 0))
  /\ UNCHANGED <<cfgVars, heap, vmVars, val, childOb, ob, subs, watcher, schedVars,
                 tickVars, exc, ret, nreg>>

\* invokeWithErrorHandling of callHook: the exception of a handler is
\* handed to handleError and callHook goes on
CatchInHook ==
  /\ exc
  /\ Len(stack) > 0 /\ Top.k = "callHook"
  /\ exc' = FALSE
  /\ trace' = handleError(trace, "error hook", Top.w)
  /\ UNCHANGED <<cfgVars, heap, vmVars, depVars, schedVars, tickVars, stack, ret, nreg, fuel>>

\* getData(data, vm), called by initData of a component that user code
\* makes: pushTarget(), data.call(vm, vm)
UserGetData(v) ==
  /\ InUser
  /\ fuel' = fuel - 1
  /\ pushTarget(noTarget(target))
  /\ stack' = stack \o <<F("getData", v, 0, <<>>), F("data", v, 0, <<>>)>>
  /\ trace' = Append(trace, E("data", v, 0, 0))
  /\ UNCHANGED <<cfgVars, heap, vmVars, val, childOb, ob, subs, watcher, schedVars,
                 tickVars, exc, ret, nreg>>

\* catch (e) of getData: handleError, return {}
CatchInData ==
  /\ exc
  /\ Len(stack) > 0 /\ Top.k = "getData"
  /\ exc' = FALSE
  /\ ret' = OBJ
  /\ trace' = handleError(trace, "error data", Top.w)
  /\ UNCHANGED <<cfgVars, heap, vmVars, depVars, schedVars, tickVars, stack, nreg, fuel>>

\* finally of getData: popTarget()
GetDataFinally ==
  /\ Running("getData")
  /\ popTarget
  /\ stack' = Pop(stack)
  /\ UNCHANGED <<cfgVars, heap, vmVars, val, childOb, ob, subs, watcher, schedVars,
                 tickVars, exc, ret, nreg, fuel, trace>>

\* vm.$watch(fn, cb, { immediate: true }) of a function that reads no
\* reactive property: the constructor of the new watcher evaluates it
\* (pushTarget(watcher), popTarget(): no Dep, so nothing will notify it),
\* then pushTarget() and the callback is invoked
UserWatchImmediate(v) ==
  /\ InUser
  /\ fuel' = fuel - 1
  /\ pushTarget(noTarget(target))
  /\ stack' = stack \o <<F("$watch", v, 0, <<>>), F("immediate", v, 0, <<>>)>>
  /\ trace' = Append(trace, E("immediate", v, 0, 0))
  /\ UNCHANGED <<cfgVars, heap, vmVars, val, childOb, ob, subs, watcher, schedVars,
                 tickVars, exc, ret, nreg>>

\* invokeWithErrorHandling of $watch: the exception of the callback is
\* handed to handleError
CatchInWatch ==
  /\ exc
  /\ Len(stack) > 0 /\ Top.k = "$watch"
  /\ exc' = FALSE
  /\ trace' = handleError(trace, "error immediate", Top.w)
  /\ UNCHANGED <<cfgVars, heap, vmVars, depVars, schedVars, tickVars, stack, ret, nreg, fuel>>

\* $watch after the callback: popTarget(), unwatchFn is returned
WatchDone ==
  /\ Running("$watch")
  /\ popTarget
  /\ stack' = Pop(stack)
  /\ ret' = UNDEF
  /\ UNCHANGED <<cfgVars, heap, vmVars, val, childOb, ob, subs, watcher, schedVars,
                 tickVars, exc, nreg, fuel, trace>>

\* no hook is left to call: flushSchedulerQueue returns
FlushReturn ==
  /\ Running("flushSchedulerQueue")
  /\ Top.n = 3
  /\ nextHook(Top.s, Top.w) = 0
  /\ stack' = Pop(stack)
  /\ UNCHANGED <<cfgVars, heap, vmVars, depVars, schedVars, tickVars, exc, ret, nreg,
                 fuel, trace>>

\* queueActivatedComponent(vm), called by user code (the patch of a
\* kept-alive component)
queueActivatedComponent(v) ==
  /\ InUser
  /\ fuel' = fuel - 1
  /\ activatedChildren' = Append(activatedChildren, v)
  /\ trace' = Append(trace, E("activate", v, 0, 0))
  /\ UNCHANGED <<cfgVars, heap, vm, items, depVars, queue, has, circular, waiting,
                 flushing, index, tickVars, stack, exc, ret, nreg>>

(***************************************************************************)
(* watcher.js                                                              *)
(***************************************************************************)
\* else if (this.sync) of Watcher.update
isSyncNever(w) == FALSE
isSync(w) == wopt[w].sync

\* the list the loop of Dep.notify walks: const subs = this.subs.slice(),
\* taken when notify() was entered and kept in its frame
walkedLive(f) == subs[f.w]
walked(f) == f.s

\* the loop of Dep.notify calls subs[i].update(): Watcher.update
NotifyNext ==
  /\ Running("notify")
  /\ Top.n < Len(walked(Top))
  /\ LET w == walked(Top)[Top.n + 1]
         st == SetTop(stack, [Top EXCEPT !.n = @ + 1])
     IN IF wopt[w].lazy
        THEN /\ watcher' = [watcher EXCEPT ![w].dirty = TRUE]
             /\ stack' = st
             /\ trace' = Append(trace, E("dirty", w, Top.w, 0))
             /\ UNCHANGED <<schedVars, tickVars>>
        ELSE IF isSync(w)
        THEN /\ stack' = Push(st, F("run", w, 0, <<>>))
             /\ trace' = Append(trace, E("run", w, 0, 0))
             /\ UNCHANGED <<watcher, schedVars, tickVars>>
        ELSE /\ queueWatcher(w, st)
             /\ UNCHANGED watcher
  /\ UNCHANGED <<cfgVars, heap, vmVars, val, childOb, ob, subs, target, targetStack, exc, ret,
                 nreg, fuel>>

\* the loop of Dep.notify is over
NotifyDone ==
  /\ Running("notify")
  /\ Top.n >= Len(walked(Top))
  /\ stack' = Pop(stack)
  /\ UNCHANGED <<cfgVars, heap, vmVars, depVars, schedVars, tickVars, exc, ret, nreg, fuel, trace>>

\* if (this.active) of Watcher.run
isActiveAlways(w) == TRUE
isActive(w) == watcher[w].active

\* Watcher.run, entered: nothing to do when inactive, else this.get()
RunStart ==
  /\ Running("run")
  /\ Top.n = 0
  /\ IF isActive(Top.w)
     THEN /\ stack' = Push(SetTop(stack, [Top EXCEPT !.n = 1]), F("get", Top.w, 0, <<>>))
          /\ UNCHANGED trace
     ELSE /\ stack' = Pop(stack)
          /\ trace' = Append(trace, E("runEnd", Top.w, 0, 0))
  /\ UNCHANGED <<cfgVars, heap, vmVars, depVars, schedVars, tickVars, exc, ret, nreg, fuel>>

\* the condition of run() for setting the value and calling the callback
shouldCall(w, value) ==
  ~StrictEq(value, watcher[w].value) \/ isObject(value) \/ wopt[w].deep

\* the callback of watcher w: user code that does what it chooses to, or
\* (wopt[w].writes # 0) a callback that writes another value to obj[writes]
\* each time it is invoked
cbFrame(w) == IF wopt[w].writes = 0 THEN "watchcb" ELSE "loopcb"

\* Watcher.run after this.get() returned
RunAfterGet ==
  /\ Running("run")
  /\ Top.n = 1
  /\ LET w == Top.w
     IN IF shouldCall(w, ret)
        THEN /\ watcher' = [watcher EXCEPT ![w].value = ret]
             /\ stack' = Push(SetTop(stack, [Top EXCEPT !.n = 2]), F(cbFrame(w), w, 0, <<>>))
             /\ trace' = Append(trace, E("cb", w, ret, watcher[w].value))
        ELSE /\ stack' = Pop(stack)
             /\ trace' = Append(trace, E("runEnd", w, 0, 0))
             /\ UNCHANGED watcher
  /\ UNCHANGED <<cfgVars, heap, vmVars, val, childOb, ob, subs, target, targetStack, schedVars,
                 tickVars, exc, ret, nreg, fuel>>

\* Watcher.run after the callback returned
RunAfterCb ==
  /\ Running("run")
  /\ Top.n = 2
  /\ stack' = Pop(stack)
  /\ trace' = Append(trace, E("runEnd", Top.w, 0, 0))
  /\ UNCHANGED <<cfgVars, heap, vmVars, depVars, schedVars, tickVars, exc, ret, nreg, fuel>>

\* if (this.user): the callback is called through invokeWithErrorHandling
callbackGuardedNever(w) == FALSE
callbackGuarded(w) == wopt[w].user

\* invokeWithErrorHandling(this.cb, ...) of a user watcher: the exception
\* of the callback is handed to handleError and run() returns
CatchInRun ==
  /\ exc
  /\ Len(stack) > 0
  /\ Top.k = "run" /\ Top.n = 2 /\ callbackGuarded(Top.w)
  /\ exc' = FALSE
  /\ stack' = Pop(stack)
  /\ trace' = Append(handleError(trace, "error callback", Top.w), E("runEnd", Top.w, 0, 0))
  /\ UNCHANGED <<cfgVars, heap, vmVars, depVars, schedVars, tickVars, ret, nreg, fuel>>

\* Watcher.get, entered: pushTarget(this)
GetStart ==
  /\ Running("get")
  /\ Top.n = 0
  /\ pushTarget(Top.w)
  /\ stack' = SetTop(stack, [Top EXCEPT !.n = 1])
  /\ UNCHANGED <<cfgVars, heap, vmVars, val, childOb, ob, subs, watcher, schedVars, tickVars, exc, ret,
                 nreg, fuel, trace>>

\* this.getter.call(vm, vm) for a getter made by parsePath: reads obj.path
GetterPath ==
  /\ Running("get")
  /\ Top.n = 1
  /\ wopt[Top.w].path # 0
  /\ LET st == track(St, target, wopt[Top.w].path)
     IN subs' = st.subs /\ watcher' = st.watcher
  /\ ret' = val[wopt[Top.w].path]
  /\ stack' = note(SetTop(stack, [Top EXCEPT !.n = 2]), target, tracked(wopt[Top.w].path))
  /\ UNCHANGED <<cfgVars, heap, vmVars, val, childOb, ob, target, targetStack, schedVars, tickVars, exc,
                 nreg, fuel, trace>>

\* this.getter.call(vm, vm) for a getter that is a user function
CallGetter ==
  /\ Running("get")
  /\ Top.n = 1
  /\ wopt[Top.w].path = 0
  /\ stack' = Push(SetTop(stack, [Top EXCEPT !.n = 2]), F("getter", Top.w, 0, <<>>))
  /\ UNCHANGED <<cfgVars, heap, vmVars, depVars, schedVars, tickVars, exc, ret, nreg, fuel, trace>>

\* the user function of a getter returns a value
GetterReturn(v) ==
  /\ Running("getter")
  /\ stack' = Pop(stack)
  /\ ret' = v
  /\ UNCHANGED <<cfgVars, heap, vmVars, depVars, schedVars, tickVars, exc, nreg, fuel, trace>>

\* catch (e) of Watcher.get: if (this.user) handleError(...) else throw e
getterGuardedNever(w) == FALSE
getterGuardedAlways(w) == TRUE
getterGuarded(w) == wopt[w].user

\* catch (e) of Watcher.get: handleError for a user watcher, else the
\* exception is thrown again once the finally block has run
CatchInGet ==
  /\ exc
  /\ Len(stack) > 0
  /\ Top.k = "get" /\ Top.n = 2
  /\ exc' = FALSE
  /\ ret' = UNDEF
  /\ IF getterGuarded(Top.w)
     THEN /\ trace' = handleError(trace, "error getter", Top.w)
          /\ stack' = SetTop(stack, [Top EXCEPT !.n = 2])
     ELSE /\ stack' = SetTop(stack, [Top EXCEPT !.n = 3])
          /\ UNCHANGED trace
  /\ UNCHANGED <<cfgVars, heap, vmVars, depVars, schedVars, tickVars, nreg, fuel>>

\* finally of Watcher.get: popTarget(), this.cleanupDeps(); then the value
\* is returned or the exception goes on.  (traverse(value) of a deep
\* watcher reads the properties of value: the objects of the model have
\* none and the elements of an array are no accessor properties, so it
\* makes no call of depend.)
GetFinally ==
  /\ Len(stack) > 0 /\ ~exc
  /\ Top.k = "get" /\ Top.n \in {2, 3}
  /\ popTarget
  /\ LET st == cleanupDeps(St, Top.w)
     IN subs' = st.subs /\ watcher' = st.watcher
  /\ exc' = (Top.n = 3)
  /\ stack' = reentered(Pop(stack), Top.w)
  /\ trace' = Append(trace, E("getEnd", Top.w, 0, 0))
  /\ UNCHANGED <<cfgVars, heap, vmVars, val, childOb, ob, schedVars, tickVars, ret, nreg, fuel>>

\* an exception leaves a frame that does not catch it
Propagate ==
  /\ exc
  /\ Len(stack) > 0
  /\ \/ Top.k \in {"notify", "flushSchedulerQueue", "turn", "tickcb", "watchcb",
                   "getter", "computedGetter"}
     \/ Top.k = "run" /\ ~(Top.n = 2 /\ callbackGuarded(Top.w))
     \/ Top.k = "flushCallbacks" /\ ~tickGuarded(Top.s[Top.n])
  /\ stack' = Pop(stack)
  /\ trace' = IF Top.k = "run" THEN Append(trace, E("runThrow", Top.w, 0, 0)) ELSE trace
  /\ UNCHANGED <<cfgVars, heap, vmVars, depVars, schedVars, tickVars, exc, ret, nreg, fuel>>

\* a mutant of dependAll: depend() of no Dep is called
dependNone(st, t, ds) == st

\* Watcher.depend: this.deps[i].depend() from the end of deps, Dep.target = t
RECURSIVE dependAll(_, _, _)
dependAll(st, t, ds) ==
  IF Len(ds) = 0 THEN st
  ELSE dependAll(depend(st, t, ds[Len(ds)]), t, SubSeq(ds, 1, Len(ds) - 1))

\* computedGetter of the computed property backed by lazy watcher w, read
\* by user code: evaluate() when dirty, else depend() and the cached value
computedGetter(w) ==
  /\ InUser
  /\ wopt[w].lazy
  /\ fuel' = fuel - 1
  /\ IF watcher[w].dirty
     THEN /\ stack' = Push(Push(stack, F("computedGetter", w, 0, <<>>)), F("get", w, 0, <<>>))
          /\ trace' = Append(trace, E("evaluate", w, target, 0))
          /\ UNCHANGED <<subs, watcher>>
     ELSE /\ LET st == dependAll(St, target, watcher[w].deps)
             IN subs' = st.subs /\ watcher' = st.watcher
          /\ stack' = note(stack, target, watcher[w].deps)
          /\ trace' = Append(trace, E("computed", w, target, 0))
  /\ UNCHANGED <<cfgVars, heap, vmVars, val, childOb, ob, target, targetStack, schedVars,
                 tickVars, exc, ret, nreg>>

\* Watcher.evaluate after this.get() returned: value stored, dirty = false;
\* then computedGetter calls watcher.depend() and returns
EvaluateDone ==
  /\ Running("computedGetter")
  /\ LET w == Top.w
         st0 == [St EXCEPT !.watcher[w].value = ret, !.watcher[w].dirty = FALSE]
         st == dependAll(st0, target, st0.watcher[w].deps)
     IN subs' = st.subs /\ watcher' = st.watcher
  /\ stack' = note(Pop(stack), target, watcher[Top.w].deps)
  /\ trace' = Append(trace, E("computed", Top.w, target, 1))
  /\ UNCHANGED <<cfgVars, heap, vmVars, val, childOb, ob, target, targetStack, schedVars,
                 tickVars, exc, ret, nreg, fuel>>

(***************************************************************************)
(* The host and user code.                                                 *)
(***************************************************************************)
\* A new synchronous turn of user code (an event handler, a script).  With
\* a microtask timerFunc the scheduled flush runs before any other turn.
StartTurn ==
  /\ Len(stack) = 0 /\ ~exc
  /\ fuel > 0
  /\ timers = 0 \/ ~config.microtask
  /\ stack' = <<F("turn", 0, 0, <<>>)>>
  /\ UNCHANGED <<cfgVars, heap, vmVars, depVars, schedVars, tickVars, exc, ret, nreg, fuel, trace>>

\* user code calls nextTick(cb) with a fresh callback
UserNextTick ==
  /\ InUser
  /\ Top.k # "getter"
  /\ nreg' = nreg + 1
  /\ fuel' = fuel - 1
  /\ nextTick(nreg + 1)
  /\ UNCHANGED <<cfgVars, heap, vmVars, depVars, schedVars, stack, exc, ret>>

\* user code calls nextTick() without a callback and is returned a new
\* promise
UserNextTickPromise ==
  /\ InUser
  /\ Top.k # "getter"
  /\ nreg' = nreg + 1
  /\ fuel' = fuel - 1
  /\ nextTick(PromiseEntry(nreg + 1))
  /\ ret' = nreg + 1
  /\ UNCHANGED <<cfgVars, heap, vmVars, depVars, schedVars, stack, exc>>

\* user code throws
UserThrow ==
  /\ InUser
  /\ fuel' = fuel - 1
  /\ exc' = TRUE
  /\ stack' = Pop(stack)
  /\ trace' = Append(trace, E("throw", Top.w, FrameCode(Top.k), 0))
  /\ UNCHANGED <<cfgVars, heap, vmVars, depVars, schedVars, tickVars, ret, nreg>>

\* user code returns (a getter returns through GetterReturn)
UserReturn ==
  /\ Len(stack) > 0 /\ ~exc
  /\ Top.k \in UserFrames \ {"getter"}
  /\ stack' = Pop(stack)
  /\ ret' = UNDEF
  /\ UNCHANGED <<cfgVars, heap, vmVars, depVars, schedVars, tickVars, exc, nreg, fuel, trace>>

\* the callback of a watcher with wopt.writes = p writes the other value
\* to obj.p
LoopCallback ==
  /\ Running("loopcb")
  /\ Top.n = 0
  /\ LET p == wopt[Top.w].writes
         stk == SetTop(stack, [Top EXCEPT !.n = 1])
     IN IF index < MaxRuns
        THEN assign(p, IF val[p] = 1 THEN 2 ELSE 1, stk)
        ELSE /\ stack' = stk
             /\ UNCHANGED <<cfgVars, heap, vmVars, depVars, schedVars, tickVars, exc, ret, nreg, trace>>
  /\ UNCHANGED fuel

\* and returns
LoopReturn ==
  /\ Running("loopcb")
  /\ Top.n = 1
  /\ stack' = Pop(stack)
  /\ ret' = UNDEF
  /\ UNCHANGED <<cfgVars, heap, vmVars, depVars, schedVars, tickVars, exc, nreg, fuel, trace>>

\* an exception nobody caught leaves the turn: the host reports it
Uncaught ==
  /\ exc
  /\ Len(stack) = 0
  /\ exc' = FALSE
  /\ UNCHANGED <<cfgVars, heap, vmVars, depVars, schedVars, tickVars, stack, ret, nreg, fuel, trace>>

(***************************************************************************)
(* Construction and the specifications.                                    *)
(***************************************************************************)
Options == [user : BOOLEAN, lazy : BOOLEAN, sync : BOOLEAN, deep : BOOLEAN,
            path : Props \cup {0}, init : Seq(Deps), first : Values \cup {UNDEF},
            writes : Props \cup {0}, render : BOOLEAN, vm : Vms]

\* the Watcher constructor: active, dirty = lazy, no deps; value = get()
\* unless lazy.  The getter has read the properties o.init in get(): a
\* path getter obj.path, a function getter what it chose to (and returned
\* o.first).  A lazy watcher with o.init was evaluated when a watcher
\* constructed after it read its computed property: dirty = false, its
\* value is what its function returned.
newWatcher(o, v) ==
  [deps |-> o.init,
   newDeps |-> <<>>,
   depIds |-> SeqToSet(o.init),
   newDepIds |-> {},
   value |-> IF o.lazy /\ o.init = <<>> THEN UNDEF
             ELSE IF o.path # 0 THEN v[o.path] ELSE o.first,
   active |-> TRUE,
   dirty |-> o.lazy /\ o.init = <<>>]

\* Dep.subs after the watchers were constructed in the order of their ids
RECURSIVE subsAfter(_, _, _)
subsAfter(o, d, n) ==
  IF n = 0 THEN <<>>
  ELSE LET before == subsAfter(o, d, n - 1)
       IN IF n \in Watchers /\ d \in SeqToSet(o[n].init)
          THEN Append(before, n) ELSE before

\* the heap when the root object was observed, obj.a and obj.b holding
\* numbers: the Deps of the root Observer, of a and of b exist; OBJ has a
\* key 1 and carries no Observer; user code has made no vm yet, the vms
\* of the model share the root object as their data and proxy its key a
Heap0 ==
  [uid |-> Cardinality(Props) + 1,
   shouldObserve |-> TRUE,
   obId |-> [o \in Objects \cup Arrays |-> UNDEF],
   vmCount |-> [o \in Objects \cup Arrays |-> 0],
   kval |-> [k \in Keys |-> IF k = 1 THEN 1 ELSE ABSENT],
   kdep |-> [k \in Keys |-> 0],
   inst |-> <<>>,
   rootVmCount |-> Cardinality(Vms),
   vmKeys |-> {<<v, 1>> : v \in Vms}]

\* the state after construction, obj.a holding a and the array its
InitHeap(cfgs, opts, ops, a, its) ==
  /\ config \in cfgs
  /\ wopt \in opts
  /\ val = [p \in Props |-> IF p = 1 THEN a ELSE 1]
  /\ ob = [o \in Objects \cup Arrays |-> o = a \/ (a \in Arrays /\ o \in SeqToSet(its))]
  /\ vm = [v \in Vms |->
            [watchers |-> SelectSeq(<<1, 2>>, LAMBDA w : wopt[w].vm = v),
             isBeingDestroyed |-> FALSE, isDestroyed |-> FALSE, isMounted |-> TRUE]]
  /\ items = its
  /\ heap = heapObserved(Heap0, [o \in Objects \cup Arrays |-> FALSE], a)
  /\ childOb = [p \in Props |-> observe(val[p])]
  /\ activatedChildren = <<>>
  /\ subs = [d \in Deps |-> subsAfter(wopt, d, Cardinality(Watchers))]
  /\ watcher = [w \in Watchers |-> newWatcher(wopt[w], val)]
  /\ target = 0
  /\ targetStack = <<>>
  /\ queue = <<>>
  /\ has = [w \in Watchers |-> FALSE]
  /\ circular = [w \in Watchers |-> 0]
  /\ waiting = FALSE
  /\ flushing = FALSE
  /\ index = 0
  /\ callbacks = <<>>
  /\ pending = FALSE
  /\ timers = 0
  /\ resolved = {}
  /\ stack = <<>>
  /\ exc = FALSE
  /\ ret = UNDEF
  /\ nreg = 0
  /\ fuel = ops
  /\ trace = <<>>

\* the state after construction, obj.a and obj.b holding 1
InitWith(cfgs, opts, ops) == InitHeap(cfgs, opts, ops, 1, <<>>)

Host == StartTurn \/ flushCallbacks \/ Uncaught
TickSteps == FlushCallbacksDone \/ CatchInTick
FlushSteps ==
  CallFlushSchedulerQueue \/ FlushRunNext \/ FlushAfterRun \/ FlushFinish \/ FlushReturn
RunSteps == NotifyNext \/ NotifyDone \/ RunStart \/ RunAfterGet \/ RunAfterCb \/ CatchInRun
GetSteps == GetStart \/ GetterPath \/ GetFinally
Machinery == Host \/ TickSteps \/ FlushSteps \/ RunSteps \/ GetSteps \/ Propagate

Opt(user, path) ==
  [user |-> user, lazy |-> FALSE, sync |-> FALSE, deep |-> FALSE, path |-> path,
   init |-> <<path>>, first |-> UNDEF, writes |-> 0, render |-> FALSE, vm |-> 1]
Batched == [async |-> TRUE, production |-> FALSE, microtask |-> TRUE]

\* Batched updates: watcher 1 watches obj.a, is a user watcher or not and
\* deep or not; watcher 2 watches obj.b.  User code (turns, watcher
\* callbacks) writes any value to obj.a and 2 to obj.b, throws and returns.
BatchOptions ==
  {<<[Opt(u1, 1) EXCEPT !.deep = d1], Opt(FALSE, 2)>> : u1 \in BOOLEAN, d1 \in BOOLEAN}

Init == InitWith({Batched}, BatchOptions, MaxOps)
Next ==
  \/ Machinery
  \/ UserThrow
  \/ UserReturn
  \/ \E v \in Values : reactiveSetter(1, v)
  \/ reactiveSetter(2, 2)
Spec == Init /\ [][Next]_vars

\* nextTick: user code (turns, nextTick callbacks, watcher callbacks)
\* registers callbacks, throws, returns and writes obj.a, which two
\* watchers watch.
TickOptions == {<<Opt(u1, 1), Opt(FALSE, 1)>> : u1 \in BOOLEAN}
InitTick == InitWith({Batched, [Batched EXCEPT !.microtask = FALSE]}, TickOptions, MaxOps)
NextTick ==
  \/ Machinery
  \/ CallTickCallback
  \/ UserNextTick
  \/ UserThrow
  \/ UserReturn
  \/ \E v \in {1, 2} : reactiveSetter(1, v)
SpecTick == InitTick /\ [][NextTick]_vars

\* Promises of nextTick: as SpecTick, and user code also calls nextTick
\* without a callback.
PromiseOptions == {<<Opt(TRUE, 1), Opt(FALSE, 1)>>}
InitPromise == InitWith({Batched, [Batched EXCEPT !.microtask = FALSE]}, PromiseOptions, MaxOps)
NextPromise ==
  \/ Machinery
  \/ CallTickCallback
  \/ ResolveTick
  \/ UserNextTick
  \/ UserNextTickPromise
  \/ UserThrow
  \/ UserReturn
  \/ reactiveSetter(1, 2)
SpecPromise == InitPromise /\ [][NextPromise]_vars

\* Dependency collection: watcher 1 has a function getter and is sync or
\* lazy (a computed property); watcher 2 is a computed property or a sync
\* watcher of obj.b.  User code (turns, getters, callbacks) reads and
\* writes properties, reads computed properties, tears watchers down,
\* throws and returns.
Fn(user, lazy, init) ==
  [user |-> user, lazy |-> lazy, sync |-> ~lazy, deep |-> FALSE, path |-> 0,
   init |-> init, first |-> UNDEF, writes |-> 0, render |-> FALSE, vm |-> 1]
DepOptions ==
  {<<o1, o2>> :
     o1 \in {Fn(u, FALSE, i) : u \in BOOLEAN, i \in {<<>>, <<1, 2>>}}
             \cup {Fn(u, TRUE, <<>>) : u \in BOOLEAN},
     o2 \in {Fn(FALSE, TRUE, <<>>), [Opt(TRUE, 2) EXCEPT !.sync = TRUE]}}
InitDeps == InitWith({Batched}, DepOptions, MaxOps)
NextDeps ==
  \/ StartTurn
  \/ Uncaught
  \/ RunSteps
  \/ GetSteps
  \/ CallGetter
  \/ CatchInGet
  \/ EvaluateDone
  \/ Propagate
  \/ UserThrow
  \/ UserReturn
  \/ GetterReturn(1)
  \/ \E p \in Props : reactiveGetter(p)
  \/ \E p \in Props, v \in {2, OBJ} : reactiveSetter(p, v)
  \/ \E w \in Watchers : computedGetter(w)
  \/ \E w \in Watchers : watcher[w].active /\ UserTeardown(w)
SpecDeps == InitDeps /\ [][NextDeps]_vars

\* Queued watchers with function getters: watcher 1 evaluates a function
\* that read obj.a and returned o.first when it was constructed, watcher 2
\* watches obj.b.  The function may read, return a value or throw.
ErrOptions ==
  {<<[Fn(u, FALSE, <<1>>) EXCEPT !.sync = FALSE, !.first = f, !.deep = d],
     Opt(FALSE, 2)>> : u \in BOOLEAN, d \in BOOLEAN, f \in {UNDEF, 1}}
InitErr == InitWith({Batched}, ErrOptions, MaxOps)
NextErr ==
  \/ Machinery
  \/ CallGetter
  \/ CatchInGet
  \/ UserThrow
  \/ UserReturn
  \/ \E v \in {1, 2} : GetterReturn(v)
  \/ reactiveGetter(1)
  \/ \E p \in Props : reactiveSetter(p, 2)
SpecErr == InitErr /\ [][NextErr]_vars

\* Watchers whose callbacks write what the watchers read: watcher 1 watches
\* obj.a and its callback writes obj.a or obj.b, watcher 2 watches obj.b
\* and its callback is user code or writes obj.a.
LoopOptions ==
  {<<[Opt(TRUE, 1) EXCEPT !.writes = p1], [Opt(FALSE, 2) EXCEPT !.writes = p2]>> :
     p1 \in Props, p2 \in {0, 1}}
InitLoop == InitWith({Batched}, LoopOptions, MaxOps - 1)
NextLoop ==
  \/ StartTurn
  \/ flushCallbacks
  \/ FlushCallbacksDone
  \/ FlushSteps
  \/ NotifyNext
  \/ NotifyDone
  \/ RunStart
  \/ RunAfterGet
  \/ RunAfterCb
  \/ GetSteps
  \/ LoopCallback
  \/ LoopReturn
  \/ UserReturn
  \/ \E p \in Props : reactiveSetter(p, 2)
SpecLoop == InitLoop /\ [][NextLoop]_vars

\* Render watchers and the hooks after a flush: watcher 1 is the render
\* watcher of vm 1, watcher 2 belongs to vm 2 and is its render watcher or
\* not.  Hooks and callbacks write, activate and destroy.
HookOptions ==
  {<<[Opt(FALSE, 1) EXCEPT !.render = TRUE],
     [Opt(FALSE, 2) EXCEPT !.render = r, !.vm = 2]>> : r \in BOOLEAN}
InitHooks == InitWith({Batched}, HookOptions, MaxOps)
NextHooks ==
  \/ StartTurn
  \/ flushCallbacks
  \/ FlushCallbacksDone
  \/ FlushSteps
  \/ FlushCallHook
  \/ CallHookDone
  \/ NotifyNext
  \/ NotifyDone
  \/ RunStart
  \/ RunAfterGet
  \/ RunAfterCb
  \/ GetSteps
  \/ UserReturn
  \/ \E v \in {1, 2} : reactiveSetter(1, v)
  \/ reactiveSetter(2, 2)
  \/ queueActivatedComponent(2)
  \/ UserDestroy(2)
SpecHooks == InitHooks /\ [][NextHooks]_vars

\* Teardown: two queued watchers of vm 1; user code and callbacks write,
\* call teardown() of a watcher (torn down already or not) and $destroy().
TearOptions == {<<Opt(TRUE, 1), Opt(FALSE, 2)>>}
InitTear == InitWith({Batched}, TearOptions, MaxOps)
NextTear ==
  \/ StartTurn
  \/ flushCallbacks
  \/ FlushCallbacksDone
  \/ FlushSteps
  \/ NotifyNext
  \/ NotifyDone
  \/ RunStart
  \/ RunAfterGet
  \/ RunAfterCb
  \/ GetSteps
  \/ UserReturn
  \/ \E v \in {2, OBJ} : reactiveSetter(1, v)
  \/ reactiveSetter(2, 2)
  \/ \E w \in Watchers : UserTeardown(w)
  \/ UserDestroy(1)
SpecTear == InitTear /\ [][NextTear]_vars

\* Arrays: obj.a holds an observed array, or a number; watcher 1 watches
\* obj.a, deep or not, watcher 2 watches obj.b.  User code calls the
\* patched methods of the array and writes obj.a (a number, or the array).
ArrOptions ==
  {<<[Opt(TRUE, 1) EXCEPT !.init = <<1, ARR>>, !.deep = d], Opt(FALSE, 2)>> : d \in BOOLEAN}
NumOptions == {<<Opt(TRUE, 1), Opt(FALSE, 2)>>}
InitArr ==
  \/ InitHeap({Batched}, ArrOptions, MaxOps - 1, ARR, <<2, 1>>)
  \/ InitHeap({Batched}, NumOptions, MaxOps - 1, 1, <<2, 1>>)
NextArr ==
  \/ StartTurn
  \/ flushCallbacks
  \/ FlushCallbacksDone
  \/ FlushSteps
  \/ NotifyNext
  \/ NotifyDone
  \/ RunStart
  \/ RunAfterGet
  \/ RunAfterCb
  \/ GetSteps
  \/ UserReturn
  \/ \E v \in {1, ARR} : reactiveSetter(1, v)
  \/ \E m \in SeqToSet(methodsToPatch) : \E args \in ArgsOf(m, items) : mutator(m, args)
SpecArr == InitArr /\ [][NextArr]_vars

\* Observation: obj.a holds the observed plain object OBJ, which has key 1;
\* watcher 1 evaluates a function that reads obj.a and keys of OBJ, watcher
\* 2 watches obj.b.  User code calls observe, creates components with a
\* prop or with root data, and writes obj.b and OBJ's key 1.
ObsOptions ==
  {<<[Fn(TRUE, FALSE, <<1, OBJ, KeyDep(Heap0.uid + 1)>>) EXCEPT !.sync = FALSE, !.first = 1],
     Opt(FALSE, 2)>>}
InitObs == InitHeap({Batched}, ObsOptions, MaxOps, OBJ, <<>>)
NextObs ==
  \/ StartTurn
  \/ flushCallbacks
  \/ FlushCallbacksDone
  \/ FlushSteps
  \/ NotifyNext
  \/ NotifyDone
  \/ RunStart
  \/ RunAfterGet
  \/ RunAfterCb
  \/ GetSteps
  \/ CallGetter
  \/ UserReturn
  \/ \E v \in {1, 2} : GetterReturn(v)
  \/ \E v \in Objects \cup Arrays : initProps(v)
  \/ \E v \in Objects \cup Arrays : \E r \in BOOLEAN : UserObserve(v, r)
  \/ \E v \in Objects \cup Arrays : reactiveSetter(2, v)
  \/ keySetter(1, 2)
SpecObs == InitObs /\ [][NextObs]_vars

\* set and del: as above, or OBJ is not observed (obj.a holds 1).  User
\* code calls set and del on OBJ, reads and writes its keys, and makes OBJ
\* the root data of a vm.
PlainOptions == {<<[Fn(TRUE, FALSE, <<1>>) EXCEPT !.sync = FALSE, !.first = 1], Opt(FALSE, 2)>>}
InitSet ==
  \/ InitHeap({Batched}, ObsOptions, MaxOps, OBJ, <<>>)
  \/ InitHeap({Batched}, PlainOptions, MaxOps, 1, <<>>)
NextSet ==
  \/ StartTurn
  \/ flushCallbacks
  \/ FlushCallbacksDone
  \/ FlushSteps
  \/ NotifyNext
  \/ NotifyDone
  \/ RunStart
  \/ RunAfterGet
  \/ RunAfterCb
  \/ GetStart
  \/ GetFinally
  \/ CallGetter
  \/ UserReturn
  \/ \E v \in {1, 2} : GetterReturn(v)
  \/ UserObserve(OBJ, TRUE)
  \/ \E k \in Keys : keyGetter(k)
  \/ \E k \in Keys : keySetter(k, 2)
  \/ \E k \in Keys : set(k, 1)
  \/ \E k \in Keys : del(k)
SpecSet == InitSet /\ [][NextSet]_vars

\* A computed property read by a sync watcher: watcher 1 is a sync
\* watcher, or a queued one, whose function read obj.a when it was
\* constructed; watcher 2 is the lazy watcher of a computed property, made
\* after watcher 1 and evaluated by a read of user code: its function read
\* obj.a and returned 1.  User code reads and writes obj.a and obj.b, reads
\* the computed property, tears watchers down, throws and returns.
LazyOptions ==
  {<<[Fn(u, FALSE, <<1>>) EXCEPT !.sync = y, !.first = 1],
     [Fn(FALSE, TRUE, <<1>>) EXCEPT !.first = 1]>> : u \in BOOLEAN, y \in BOOLEAN}
InitLazy == InitWith({Batched}, LazyOptions, MaxOps)
NextLazy ==
  \/ Host
  \/ TickSteps
  \/ FlushSteps
  \/ RunSteps
  \/ GetStart
  \/ GetFinally
  \/ Propagate
  \/ CallGetter
  \/ CatchInGet
  \/ EvaluateDone
  \/ UserThrow
  \/ UserReturn
  \/ \E v \in {1, 2} : GetterReturn(v)
  \/ \E p \in Props : reactiveGetter(p)
  \/ computedGetter(2)
  \/ \E p \in Props : reactiveSetter(p, 2)
  \/ \E w \in Watchers : watcher[w].active /\ UserTeardown(w)
SpecLazy == InitLazy /\ [][NextLazy]_vars

\* Root data: user code makes vms whose data is OBJ, destroys them, and
\* calls set and del on OBJ and on a vm.
InitRoot == InitSet
NextRoot ==
  \/ NextSet
  \/ \E i \in 1..MaxOps : UserDestroyInstance(i)
  \/ UserDestroy(2)
  \/ setVm(1, 2, 1)
  \/ \E k \in Keys : delVm(1, k)
SpecRoot == InitRoot /\ [][NextRoot]_vars

\* Progress: the host runs the deferred callbacks it was given, the calls
\* of the library go on, and user code that was called returns.
LiveOptions ==
  {<<Opt(u, 1), Opt(~u, 2)>> : u \in BOOLEAN}
    \cup {<<[Opt(TRUE, 1) EXCEPT !.writes = 1], Opt(TRUE, 2)>>}
InitLive == InitWith({Batched}, LiveOptions, MaxOps)
NextLive ==
  \/ Machinery
  \/ LoopCallback
  \/ LoopReturn
  \/ UserThrow
  \/ UserReturn
  \/ \E p \in Props : reactiveSetter(p, 2)
Fairness == WF_vars(Machinery \/ LoopCallback \/ LoopReturn) /\ WF_vars(UserReturn)
SpecLive == InitLive /\ [][NextLive]_vars /\ Fairness

\* Requests of a flush: as SpecLive without its fairness, in the batched
\* configuration and with config.async switched off (queueWatcher then
\* calls flushSchedulerQueue itself).
Unbatched == [Batched EXCEPT !.async = FALSE]
RequestOptions == {<<Opt(u, 1), Opt(~u, 2)>> : u \in BOOLEAN}
InitRequest == InitWith({Batched, Unbatched}, RequestOptions, MaxOps)
NextRequest ==
  \/ Machinery
  \/ UserThrow
  \/ UserReturn
  \/ \E p \in Props : \E v \in {1, 2} : reactiveSetter(p, v)
SpecRequest == InitRequest /\ [][NextRequest]_vars

\* The three kinds of watcher notified by one write: watcher 1 is a
\* computed property whose function reads obj.a, or watches obj.a, sync or
\* queued; watcher 2 watches obj.a, sync or queued.
UpdateOptions ==
  {<<o1, o2>> :
     o1 \in {Fn(FALSE, TRUE, <<>>), Opt(FALSE, 1), [Opt(TRUE, 1) EXCEPT !.sync = TRUE]},
     o2 \in {Opt(TRUE, 1), [Opt(FALSE, 1) EXCEPT !.sync = TRUE]}}
InitUpdate == InitWith({Batched, Unbatched}, UpdateOptions, MaxOps)
NextUpdate ==
  \/ Machinery
  \/ CallGetter
  \/ CatchInGet
  \/ EvaluateDone
  \/ UserThrow
  \/ UserReturn
  \/ GetterReturn(1)
  \/ reactiveGetter(1)
  \/ computedGetter(1)
  \/ \E v \in {1, 2} : reactiveSetter(1, v)
SpecUpdate == InitUpdate /\ [][NextUpdate]_vars

\* A computed property read by a watcher: watcher 1 is the lazy watcher
\* of a computed property, watcher 2 a queued watcher whose function read
\* the computed property when it was constructed; the function of the
\* computed property read obj.a then and returned 1.  User code reads and
\* writes obj.a and obj.b, reads the computed property, throws and returns.
ComputedOptions ==
  {<<[Fn(FALSE, TRUE, <<1>>) EXCEPT !.first = 1],
     [Fn(u, FALSE, <<1>>) EXCEPT !.sync = FALSE, !.first = 1]>> : u \in BOOLEAN}
InitComputed == InitWith({Batched}, ComputedOptions, MaxOps)
NextComputed ==
  \/ Host
  \/ TickSteps
  \/ FlushSteps
  \/ RunSteps
  \/ GetStart
  \/ GetFinally
  \/ Propagate
  \/ CallGetter
  \/ CatchInGet
  \/ EvaluateDone
  \/ UserThrow
  \/ UserReturn
  \/ \E v \in {1, 2} : GetterReturn(v)
  \/ \E p \in Props : reactiveGetter(p)
  \/ computedGetter(1)
  \/ \E p \in Props : reactiveSetter(p, 2)
SpecComputed == InitComputed /\ [][NextComputed]_vars

\* One notification of two subscribers: watcher 1 is a sync watcher of
\* obj.a, user or not; watcher 2 is a sync or queued watcher of obj.a, a
\* computed property not yet evaluated, or a sync watcher whose function
\* read obj.b.  User code (turns, getters, callbacks) reads and writes
\* obj.a and obj.b, reads the computed property, tears watcher 2 down,
\* throws and returns.
NotifyOptions ==
  {<<[Opt(u, 1) EXCEPT !.sync = TRUE], o2>> :
     u \in BOOLEAN,
     o2 \in {[Opt(TRUE, 1) EXCEPT !.sync = TRUE], Opt(FALSE, 1),
             Fn(FALSE, TRUE, <<>>), Fn(TRUE, FALSE, <<2>>)}}
InitNotify == InitWith({Batched}, NotifyOptions, MaxOps)
NextNotify ==
  \/ Machinery
  \/ CallGetter
  \/ CatchInGet
  \/ EvaluateDone
  \/ UserThrow
  \/ UserReturn
  \/ GetterReturn(1)
  \/ reactiveGetter(1)
  \/ computedGetter(2)
  \/ \E p \in Props : reactiveSetter(p, 2)
  \/ UserTeardown(2)
SpecNotify == InitNotify /\ [][NextNotify]_vars

\* The configuration without batching (config.async off in a development
\* build): watcher 1 is a sync function watcher that read obj.b, or a
\* queued watcher of obj.a; watcher 2 watches obj.a, sync or queued.
\* User code reads obj.a, writes obj.a and obj.b, throws and returns.
SyncOptions ==
  {<<o1, o2>> :
     o1 \in {Fn(u, FALSE, <<2>>) : u \in BOOLEAN} \cup {Opt(FALSE, 1)},
     o2 \in {Opt(u, 1) : u \in BOOLEAN} \cup {[Opt(TRUE, 1) EXCEPT !.sync = TRUE]}}
InitSync == InitWith({Unbatched}, SyncOptions, MaxOps)
NextSync ==
  \/ StartTurn
  \/ Uncaught
  \/ FlushRunNext
  \/ FlushAfterRun
  \/ FlushFinish
  \/ FlushReturn
  \/ RunSteps
  \/ GetSteps
  \/ Propagate
  \/ CallGetter
  \/ CatchInGet
  \/ UserThrow
  \/ UserReturn
  \/ GetterReturn(1)
  \/ reactiveGetter(1)
  \/ \E p \in Props : \E v \in {1, 2} : reactiveSetter(p, v)
SpecSync == InitSync /\ [][NextSync]_vars

\* The evaluation context: watcher 1 is a sync function watcher that read
\* obj.a, user or not; watcher 2 is a computed property not yet evaluated.
\* User code (turns, the two functions, callbacks, hooks, data functions)
\* reads obj.a, reads the computed property, writes obj.a, has
\* a hook and a data function called, calls $watch with immediate,
\* throws and returns.
ContextOptions == {<<Fn(u, FALSE, <<1>>), Fn(FALSE, TRUE, <<>>)>> : u \in BOOLEAN}
InitContext == InitWith({Batched}, ContextOptions, MaxOps)
NextContext ==
  \/ StartTurn
  \/ Uncaught
  \/ RunSteps
  \/ GetStart
  \/ GetFinally
  \/ CallGetter
  \/ CatchInGet
  \/ EvaluateDone
  \/ Propagate
  \/ UserThrow
  \/ UserReturn
  \/ GetterReturn(1)
  \/ reactiveGetter(1)
  \/ reactiveGetterNoTarget(1)
  \/ computedGetter(2)
  \/ reactiveSetter(1, 2)
  \/ UserCallHook(1)
  \/ CallHookDone
  \/ CatchInHook
  \/ UserGetData(1)
  \/ CatchInData
  \/ GetDataFinally
  \/ UserWatchImmediate(1)
  \/ CatchInWatch
  \/ WatchDone
SpecContext == InitContext /\ [][NextContext]_vars

(***************************************************************************)
(* Reading the history.                                                    *)
(***************************************************************************)
Max(S) == CHOOSE x \in S : \A y \in S : y <= x
Min(S) == CHOOSE x \in S : \A y \in S : x <= y
Idx(ev) == {i \in 1..Len(trace) : trace[i].ev = ev}
IdxOf(ev, a) == {i \in 1..Len(trace) : trace[i].ev = ev /\ trace[i].a = a}
Last(ev) == IF Idx(ev) = {} THEN 0 ELSE Max(Idx(ev))
LastEv == IF Len(trace) = 0 THEN "" ELSE trace[Len(trace)].ev
\* the events of the flush that started last
Seg == (Last("flush") + 1)..Len(trace)
\* the events between the end of the flush before it and its start
Before == (IF Idx("flushEnd") \ Seg = {} THEN 1 ELSE Max(Idx("flushEnd") \ Seg) + 1)
            ..(Last("flush") - 1)
\* writes that changed property p, among the events S
Writes(p, S) == {i \in S : trace[i].ev = "set" /\ trace[i].a = p /\ trace[i].c = 1}
AllWrites(S) == {i \in S : trace[i].ev = "set" /\ trace[i].c = 1}
\* the value watcher w holds before event i: the new value of its last
\* callback, or the value it was constructed with
ValueBefore(w, i) ==
  LET prev == {j \in IdxOf("cb", w) : j < i}
  IN IF prev = {} THEN 1 ELSE trace[Max(prev)].b

(***************************************************************************)
(* Claims.                                                                 *)
(***************************************************************************)
\* C1 as stated: after one or more writes that change p, made before the
\* deferred flush and none during it, the flush invokes the callback of a
\* watcher of p exactly once.
C1_ExactlyOnce ==
  (LastEv = "flushEnd" /\ AllWrites(Seg) = {}) =>
    \A w \in Watchers :
      Writes(wopt[w].path, Before) # {} => Cardinality(IdxOf("cb", w) \cap Seg) = 1

\* C1 amended: the flush is deferred (it is entered from flushCallbacks,
\* never from the writing code); a flush during which nothing is written
\* runs each watcher whose property was changed before it exactly once and
\* invokes its callback at most once: not at all when the final value of p
\* is a primitive === to the value the watcher holds and the watcher is not
\* deep, else once, with the final value of p as the new value and the
\* value held before as the old.
C1_BatchedOnce ==
  /\ \A i \in Idx("flush") : i > 1 /\ trace[i - 1] = E("tick", FLUSH, 0, 0)
  /\ \A i \in Idx("cb") : \E j \in Idx("flush") : j < i
  /\ (LastEv = "flushEnd" /\ AllWrites(Seg) = {}) =>
       \A w \in Watchers :
         LET p == wopt[w].path
             cbs == IdxOf("cb", w) \cap Seg
             runs == IdxOf("run", w) \cap Seg
         IN /\ Cardinality(runs) <= 1
            /\ Writes(p, Before) # {} => Cardinality(runs) = 1
            /\ Cardinality(cbs) <= 1
            /\ runs # {} =>
                 (cbs = {} <=> (/\ StrictEq(val[p], ValueBefore(w, Last("flush")))
                                 /\ ~isObject(val[p])
                                 /\ ~wopt[w].deep))
            /\ \A i \in cbs : /\ trace[i].b = val[p]
                               /\ trace[i].c = ValueBefore(w, i)
                               /\ watcher[w].value = val[p]

\* a flush ended in which the callback of a watcher was invoked after
\* two or more changing writes, the last of which set another value
C1_Witness ==
  /\ LastEv = "flushEnd"
  /\ \E w \in Watchers :
       /\ Cardinality(Writes(wopt[w].path, Before)) >= 2
       /\ \E i \in Writes(wopt[w].path, Before) : trace[i].b # val[wopt[w].path]
       /\ IdxOf("cb", w) \cap Seg # {}

\* the watchers in the queue when the flush of event f started
PendingAt(f) ==
  {trace[k].a : k \in {k \in Idx("pending") :
                          k > f /\ \A m \in (f + 1)..k : trace[m].ev = "pending"}}
\* the flush in which event j happens
FlushOf(j) == Max({i \in Idx("flush") : i < j})

\* C3: in a flush, run() of a watcher that was pending when the flush
\* started is entered only after run() of every pending watcher with a
\* smaller id has been entered and has returned.
C3_FlushOrder ==
  \A j \in Idx("run") :
    LET f == FlushOf(j)
        w == trace[j].a
    IN w \in PendingAt(f) =>
         \A v \in PendingAt(f) :
           v < w => \E r \in IdxOf("run", v), k \in IdxOf("runEnd", v) :
                      f < r /\ r < k /\ k < j

\* a flush ran to its end whose queue held watcher 2 before watcher 1
C3_Witness ==
  /\ LastEv = "flushEnd"
  /\ Last("flush") + 2 <= Len(trace)
  /\ trace[Last("flush") + 1] = E("pending", 2, 0, 0)
  /\ trace[Last("flush") + 2] = E("pending", 1, 0, 0)
  /\ IdxOf("runEnd", 2) \cap Seg # {}

\* the scheduler as resetSchedulerState leaves it
SchedulerIdle ==
  /\ queue = <<>> /\ index = 0 /\ ~waiting /\ ~flushing
  /\ \A w \in Watchers : ~has[w]

\* an exception thrown by the callback of a watcher in ws is handed to
\* handleError at once and run() returns; a flush that reaches its end has
\* run every watcher that was pending and leaves the scheduler reset
CallbackErrorsCaught(ws) ==
  /\ \A i \in Idx("throw") :
       (trace[i].b = 2 /\ trace[i].a \in ws) =>
         \/ i = Len(trace) /\ exc /\ Len(stack) > 0 /\ Top.k = "run" /\ Top.w = trace[i].a
         \/ /\ i + 2 <= Len(trace)
            /\ trace[i + 1] = E("error callback", trace[i].a, 0, 0)
            /\ trace[i + 2] = E("runEnd", trace[i].a, 0, 0)
  /\ \A i \in Idx("runThrow") : trace[i].a \notin ws
  /\ LastEv = "flushEnd" =>
       /\ SchedulerIdle
       /\ \A w \in PendingAt(Last("flush")) : IdxOf("runEnd", w) \cap Seg # {}

\* C10 as stated: the exception of any watcher's callback is caught in
\* run(), whether or not the watcher is flagged user.
C10_AnyCallbackCaught == CallbackErrorsCaught(Watchers)

\* C10 amended: an exception thrown by the callback of a watcher flagged
\* user is caught in run() and reported, and does not reach the flush loop:
\* the watchers remaining in the queue still run and the flush ends with
\* the scheduler reset.
C10_UserCallbackCaught == CallbackErrorsCaught({w \in Watchers : wopt[w].user})

\* a flush ended in which the callback of watcher 1 threw and watcher 2,
\* pending behind it, ran
C10_Witness ==
  /\ LastEv = "flushEnd"
  /\ \E i \in Idx("throw") \cap Seg : trace[i].b = 2 /\ trace[i].a = 1
  /\ \E r \in IdxOf("run", 2) \cap Seg, i \in Idx("throw") \cap Seg : i < r

\* the last event, if the step appended one
Logged(ev) == Len(trace') = Len(trace) + 1 /\ trace'[Len(trace')].ev = ev

\* C2, the scenario: obj.a = 2 written twice and nothing else, then the
\* flush: every watcher of obj.a was called back once, with (2, 1)
C2_Scenario ==
  (/\ LastEv = "flushEnd"
   /\ Cardinality(Idx("set")) = 2
   /\ \A i \in Idx("set") : trace[i].a = 1 /\ trace[i].b = 2 /\ i < Last("flush")) =>
     \A w \in Watchers :
       wopt[w].path = 1 =>
         /\ Cardinality(IdxOf("cb", w)) = 1
         /\ \A i \in IdxOf("cb", w) : trace[i].b = 2 /\ trace[i].c = 1

\* C2: a write of the value the property holds (the same value, NaN
\* included) changes neither the stored value nor the child observer, calls
\* no update() (no notify loop is entered) and leaves the scheduler and the
\* callback list as they are; and the scenario.
C2_SameValueNoOp ==
  /\ [][(Logged("set") /\ trace'[Len(trace')].b = val[trace'[Len(trace')].a]) =>
          UNCHANGED <<val, childOb, ob, subs, watcher, schedVars, tickVars, stack>>]_vars
  /\ []C2_Scenario

\* the scenario has happened
C2_Witness ==
  /\ LastEv = "flushEnd"
  /\ Cardinality(Idx("set")) = 2
  /\ \A i \in Idx("set") : trace[i].a = 1 /\ trace[i].b = 2 /\ i < Last("flush")
  /\ IdxOf("cb", 1) # {}

\* the a fields of the events ev, in the order logged
Proj(ev) ==
  LET sel == SelectSeq(trace, LAMBDA e : e.ev = ev)
  IN [i \in 1..Len(sel) |-> sel[i].a]
\* the index of the k-th event ev
Nth(ev, k) == CHOOSE i \in Idx(ev) : Cardinality({x \in Idx(ev) : x <= i}) = k
\* the index of the last event ev before index j, 0 if there is none
LastBefore(ev, j) ==
  IF {i \in Idx(ev) : i < j} = {} THEN 0 ELSE Max({i \in Idx(ev) : i < j})
\* a pass of flushCallbacks has begun and has not ended
InPass == Last("flushCallbacks") > Last("flushCallbacksEnd")
\* the copies the running pass has not called yet
Remaining ==
  IF Len(stack) > 0 /\ stack[1].k = "flushCallbacks"
  THEN SubSeq(stack[1].s, stack[1].n + 1, Len(stack[1].s))
  ELSE <<>>

\* C6: timerFunc is called once per batch: each nextTick call has exactly
\* one timerFunc call between the start of the last pass before it and
\* itself; pending is true exactly when a scheduled flushCallbacks has not
\* started, there is at most one of these, and a non-empty list has one.
C6_Coalesced ==
  /\ timers \in {0, 1}
  /\ pending <=> timers = 1
  /\ callbacks # <<>> => pending
  /\ Cardinality(Idx("timerFunc")) = Cardinality(Idx("flushCallbacks")) + timers
  /\ \A j \in Idx("nextTick") :
       Cardinality({i \in Idx("timerFunc") :
                      i > LastBefore("flushCallbacks", j) /\ i <= j + 1}) = 1

\* two calls of nextTick in one batch, made during a pass, and one
\* flushCallbacks scheduled for them
C6_Witness ==
  /\ \E i, j \in Idx("nextTick") :
       /\ i < j
       /\ LastBefore("flushCallbacks", i) = LastBefore("flushCallbacks", j)
       /\ LastBefore("flushCallbacks", i) > 0
  /\ timers = 1

\* C7: the callbacks invoked so far are the first callbacks registered, in
\* the order of their registration.
C7_Fifo ==
  /\ Len(Proj("tick")) <= Len(Proj("nextTick"))
  /\ Proj("tick") = SubSeq(Proj("nextTick"), 1, Len(Proj("tick")))

\* three callbacks invoked in two passes, two of them in one pass
C7_Witness ==
  /\ Len(Proj("tick")) >= 3
  /\ Cardinality(Idx("flushCallbacks")) = 2
  /\ \E i, j \in Idx("tick") :
       /\ i < j /\ trace[i].a > 0 /\ trace[j].a > 0
       /\ LastBefore("flushCallbacks", i) = LastBefore("flushCallbacks", j)

\* C8: a callback is invoked by a pass that started after its registration;
\* a registration during a pass leaves exactly one flushCallbacks scheduled;
\* every registered callback has been invoked once or is waiting once, and
\* none is waiting when no flushCallbacks is scheduled or running.
C8_NextBatch ==
  /\ \A k \in 1..Len(Proj("tick")) :
       /\ k <= Len(Proj("nextTick"))
       /\ Nth("nextTick", k) < LastBefore("flushCallbacks", Nth("tick", k))
  /\ (Len(stack) > 0 /\ stack[1].k = "flushCallbacks" /\ callbacks # <<>>) =>
       pending /\ timers = 1
  /\ \A c \in 0..nreg :
       /\ Count(Proj("nextTick"), c) =
            Count(Proj("tick"), c) + Count(callbacks, c) + Count(Remaining, c)
       /\ c > 0 => Count(Proj("nextTick"), c) = 1
  /\ (Len(stack) = 0 /\ timers = 0) => Proj("tick") = Proj("nextTick")

\* a callback registered during a pass has been invoked
C8_Witness ==
  \E j \in Idx("tick") : \E i \in IdxOf("nextTick", trace[j].a) :
    /\ trace[j].a > 0
    /\ LastBefore("flushCallbacks", i) > LastBefore("flushCallbacksEnd", i)

\* C9: a pass of flushCallbacks is never abandoned: while it has not ended
\* its frame is on the stack and the callbacks invoked in it are the first
\* copies, in order; an exception thrown by a callback is handed to
\* handleError at once; throwing and catching leave pending, callbacks and
\* the scheduled flushCallbacks as they are.
C9_TickErrorsCaught ==
  /\ [](InPass =>
          /\ Len(stack) > 0 /\ stack[1].k = "flushCallbacks"
          /\ SubSeq(Proj("tick"), Len(Proj("tick")) - stack[1].n + 1, Len(Proj("tick")))
               = SubSeq(stack[1].s, 1, stack[1].n)
          /\ Cardinality({i \in Idx("tick") : i > Last("flushCallbacks")}) = stack[1].n)
  /\ [](\A i \in Idx("throw") :
          trace[i].b = FrameCode("tickcb") =>
            \/ i = Len(trace) /\ exc
            \/ i < Len(trace) /\ trace[i + 1] = E("error nextTick", trace[i].a, 0, 0))
  /\ [][(Logged("throw") \/ Logged("error nextTick")) => UNCHANGED tickVars]_vars

\* a callback threw, and the next callback of the pass was invoked, and the
\* pass ended
C9_Witness ==
  /\ LastEv = "flushCallbacksEnd"
  /\ \E i \in Idx("throw") : \E j \in Idx("tick") :
       /\ trace[i].b = FrameCode("tickcb")
       /\ i < j
       /\ LastBefore("flushCallbacks", i) = LastBefore("flushCallbacks", j)

\* a step that ends a pass of Watcher.get, of watcher w
GetEnds(w) == Logged("getEnd") /\ trace'[Len(trace')].a = w
\* the Deps whose depend() ran in the pass that the step ends
Touched == SeqToSet(Top.s) \ {REENTERED}
\* after the step, w.deps is exactly T, w is in the subs of each and in the
\* subs of no other Dep
ExactDeps(w, T) ==
  /\ SeqToSet(watcher'[w].deps) = T
  /\ \A d \in Deps : w \in SeqToSet(subs'[d]) <=> d \in T

\* C4: no Dep's subs holds a watcher twice
C4_SubsUnique == \A d \in Deps : \A w \in Watchers : Count(subs[d], w) <= 1

\* a watcher is once in the subs of a Dep that it read when constructed
\* and has read in two passes since
C4_Witness ==
  \E w \in Watchers : \E d \in SeqToSet(wopt[w].init) :
    /\ Count(subs[d], w) = 1
    /\ d \in watcher[w].depIds
    /\ Cardinality(IdxOf("getEnd", w)) >= 2

\* C5: when a pass of get of W ends, W.deps is exactly the Deps whose
\* depend() ran with W as the target during the pass, W is in the subs of
\* each, and in the subs of no other Dep.
C5_ExactDeps ==
  [][\A w \in Watchers : GetEnds(w) => ExactDeps(w, Touched)]_vars

\* C5 amended: the same, for a watcher that is active when the pass ends and
\* a pass that is neither inside another pass of W nor had one inside it.
C5_ExactDepsActive ==
  [][\A w \in Watchers :
       (/\ GetEnds(w)
        /\ watcher'[w].active
        /\ REENTERED \notin SeqToSet(Top.s)
        /\ \A i \in 1..Len(stack') : ~(stack'[i].k = "get" /\ stack'[i].w = w))
       => ExactDeps(w, Touched)]_vars

\* watcher 1 read obj.a and obj.b when constructed and only obj.b in the
\* pass that has just ended
C5_Witness ==
  /\ wopt[1].init = <<1, 2>>
  /\ LastEv = "getEnd" /\ trace[Len(trace)].a = 1
  /\ watcher[1].active
  /\ watcher[1].deps = <<2>>
  /\ 1 \notin SeqToSet(subs[1])
  /\ 1 \in SeqToSet(subs[2])

\* the throws of the getter of watcher w
GetterThrows(w) == {i \in IdxOf("throw", w) : trace[i].b = FrameCode("getter")}
\* the value watcher w holds before event i
HeldBefore(w, i) ==
  LET prev == {j \in IdxOf("cb", w) : j < i}
  IN IF prev = {} THEN newWatcher(wopt[w], [p \in Props |-> 1]).value
     ELSE trace[Max(prev)].b
\* the events after event i are the events es, as far as the trace goes
Followed(i, es) ==
  \A k \in 1..Len(es) : i + k <= Len(trace) => trace[i + k] = es[k]

\* C11 as stated: when the getter of a user watcher W throws while run()
\* evaluates it again, the error is reported and not propagated, and the
\* pass has failed: W keeps the value it held and the callback is not
\* invoked for the pass.
C11_FailedPassKeepsValue ==
  \A w \in Watchers : \A i \in GetterThrows(w) :
    (wopt[w].user /\ ~wopt[w].lazy) =>
      Followed(i, <<E("error getter", w, 0, 0), E("getEnd", w, 0, 0),
                    E("runEnd", w, 0, 0)>>)

\* C11 amended: the error is reported and not propagated, get() returns
\* undefined, and run() takes undefined for the new value: when W held
\* another value or W is deep, W's value becomes undefined and the
\* callback is invoked with (undefined, the value held); when W held
\* undefined and is not deep, nothing changes and no callback is invoked.
C11_FailedPassUndefined ==
  \A w \in Watchers : \A i \in GetterThrows(w) :
    (wopt[w].user /\ ~wopt[w].lazy) =>
      Followed(i, <<E("error getter", w, 0, 0), E("getEnd", w, 0, 0),
                    IF HeldBefore(w, i) # UNDEF \/ wopt[w].deep
                    THEN E("cb", w, UNDEF, HeldBefore(w, i))
                    ELSE E("runEnd", w, 0, 0)>>)

\* the getter of a user watcher that held 1 threw in a flush, and the
\* watcher holds undefined after its callback was invoked with
\* (undefined, 1)
C11_Witness ==
  \E w \in Watchers : \E i \in GetterThrows(w) :
    /\ wopt[w].user /\ ~wopt[w].deep
    /\ flushing
    /\ i + 3 = Len(trace)
    /\ trace[i + 3] = E("cb", w, UNDEF, 1)
    /\ watcher[w].value = UNDEF

\* the deps and newDeps generations of watcher w are consistent: newDeps is
\* empty, depIds is the ids of deps, and w is in the subs of exactly the
\* Deps of deps
Consistent(w) ==
  /\ watcher[w].newDeps = <<>>
  /\ watcher[w].newDepIds = {}
  /\ watcher[w].depIds = SeqToSet(watcher[w].deps)
  /\ \A d \in Deps : w \in SeqToSet(subs[d]) <=> d \in watcher[w].depIds

\* C12: when the getter of a watcher W that is not user throws in a flush,
\* the exception leaves get(), run() and flushSchedulerQueue and reaches
\* the caller (the wrapper nextTick made); when it leaves get(), the target
\* has been popped and cleanupDeps has run: the deps and newDeps of W are
\* consistent.
C12_GetterErrorPropagates ==
  /\ \A w \in Watchers : \A i \in GetterThrows(w) :
       (~wopt[w].user /\ ~wopt[w].lazy) =>
         Followed(i, <<E("getEnd", w, 0, 0), E("runThrow", w, 0, 0),
                       E("error nextTick", FLUSH, 0, 0)>>)
  /\ \A w \in Watchers :
       (exc /\ Len(stack) > 0 /\ Top.k = "run" /\ Top.w = w) =>
         (target \notin Watchers /\ targetStack = <<>> /\ Consistent(w))

\* the getter of a watcher that is not user read obj.a and threw, the
\* exception has left get() and is about to leave run()
C12_Witness ==
  \E w \in Watchers :
    /\ ~wopt[w].user
    /\ exc /\ Len(stack) > 0 /\ Top.k = "run" /\ Top.w = w
    /\ GetterThrows(w) # {}
    /\ watcher[w].deps = <<1>>
    /\ LastEv = "getEnd"

\* the callback of watcher w writes the property that w watches: w puts
\* itself in the queue again during each of its runs
SelfDirtying(w) == wopt[w].writes # 0 /\ wopt[w].writes = wopt[w].path
\* the events ev of watcher w in the flush of event i, before event i
InFlushBefore(ev, w, i) == {j \in IdxOf(ev, w) : FlushOf(i) < j /\ j < i}
\* the runs of watcher w in the flush that started last in which w put
\* itself in the queue again (its callback was invoked), and after which
\* flushSchedulerQueue has made its test for circular updates
Counted(w) ==
  LET runs == IdxOf("run", w) \cap Seg
      cbs == IdxOf("cb", w) \cap Seg
      open == \E k \in 1..Len(stack) :
                stack[k].k = "flushSchedulerQueue" /\ stack[k].n = 1 /\ stack[k].w = w
  IN Cardinality(cbs)
       - (IF open /\ \E c \in cbs : \A r \in runs : r < c THEN 1 ELSE 0)

\* C13: not in production, for a watcher W that puts itself in the queue
\* again during each of its runs in a flush: circular[W] is incremented
\* after each such run; the loop is left right after the 101st of them, when
\* circular[W] exceeds MAX_UPDATE_COUNT for the first time; the diagnostic
\* is reported, no exception is raised, and W is not run again in the flush.
C13_Breaker ==
  /\ \A i \in Idx("warn loop") :
       LET w == trace[i].a
       IN /\ trace[i - 1] = E("runEnd", w, 0, 0)
          /\ SelfDirtying(w) =>
               Cardinality(InFlushBefore("cb", w, i)) = MAX_UPDATE_COUNT + 1
          /\ Followed(i, <<E("flushEnd", 0, 0, 0)>>)
          /\ i = Len(trace) => ~exc /\ circular[w] = MAX_UPDATE_COUNT + 1
  /\ \A w \in Watchers :
       /\ circular[w] <= MAX_UPDATE_COUNT + 1
       /\ circular[w] = MAX_UPDATE_COUNT + 1 => trace[Len(trace)] = E("warn loop", w, 0, 0)
       /\ (flushing /\ SelfDirtying(w)) => circular[w] = Counted(w)

\* the flush was left after the 101st run of a watcher whose callback
\* writes what it watches, and has ended
C13_Witness ==
  /\ LastEv = "flushEnd"
  /\ trace[Len(trace) - 1].ev = "warn loop"
  /\ LET w == trace[Len(trace) - 1].a
     IN /\ SelfDirtying(w)
        /\ Cardinality(IdxOf("run", w) \cap Seg) = MAX_UPDATE_COUNT + 1
        /\ Cardinality(IdxOf("cb", w) \cap Seg) = MAX_UPDATE_COUNT + 1

\* the flush that started last was left by the test for circular updates
\* and has ended
Tripped ==
  /\ Last("flushEnd") > Last("flush")
  /\ trace[Last("flushEnd") - 1].ev = "warn loop"
\* the watchers of the properties changed since the last flush ended
\* (watchers that had not been torn down when the property changed)
DirtiedSince ==
  {w \in Watchers : \E i \in AllWrites((Last("flushEnd") + 1)..Len(trace)) :
                      /\ trace[i].a = wopt[w].path
                      /\ \A d \in IdxOf("destroy", wopt[w].vm) : i < d
                      /\ \A d \in IdxOf("teardown", w) : i < d}

\* C14: when the loop of a flush is left by the test for circular updates,
\* the watchers that have run keep the values they computed, no watcher is
\* run after the diagnostic in that flush, and the scheduler is left fully
\* reset (queue empty, no pending flags, cursor 0, circular cleared,
\* waiting and flushing false): a later write puts its watchers in a fresh
\* queue and schedules a new flush.
C14_TrippedFlushResets ==
  Tripped =>
    /\ trace[Last("flushEnd") - 2].ev = "runEnd"
    /\ \A w \in Watchers :
         /\ circular[w] = 0
         /\ watcher[w].value = HeldBefore(w, Len(trace) + 1)
    /\ LastEv = "flushEnd" => SchedulerIdle
    /\ Len(stack) = 0 =>
         /\ SeqToSet(queue) = DirtiedSince
         /\ \A w \in Watchers : has[w] <=> w \in DirtiedSince
         /\ index = 0 /\ ~flushing
         /\ waiting <=> DirtiedSince # {}
         /\ IF DirtiedSince = {}
            THEN callbacks = <<>> /\ ~pending /\ timers = 0
            ELSE callbacks = <<FLUSH>> /\ pending /\ timers = 1

\* a flush was left by the test after watcher 1 had run; a later turn wrote
\* obj.a, and watcher 1 alone is in the queue with a flush scheduled
C14_Witness ==
  /\ Tripped
  /\ Len(stack) = 0
  /\ Cardinality(IdxOf("cb", 1) \cap Seg) = MAX_UPDATE_COUNT + 1
  /\ AllWrites((Last("flushEnd") + 1)..Len(trace)) # {}
  /\ queue = <<1>> /\ has[1] /\ ~has[2] /\ waiting /\ timers = 1

\* C15: not in production every flush terminates: whatever the callbacks
\* of the watchers write (what they read themselves, or what each other
\* reads, cycles through two or more watchers included), the number of
\* calls of run() in one flush is bounded: the test for circular updates
\* lets each watcher run 101 times at most.
C15_RunsBounded ==
  Cardinality(Idx("run") \cap Seg) <= Cardinality(Watchers) * (MAX_UPDATE_COUNT + 1)

\* run() of watcher w has been called
RunEntered(w) == Running("run") /\ Top.w = w /\ Top.n = 0
\* a step in which flushSchedulerQueue calls run() of watcher w
FlushRuns(w) == Logged("run") /\ trace'[Len(trace')].a = w /\ ~wopt[w].sync

Abandoned == \E i \in Idx("runThrow") : ~wopt[trace[i].a].sync
\* the step is the reset of a flush whose loop was left by the test for
\* circular updates
BrokenReset == LastEv = "warn loop" /\ Logged("flushEnd")

AmongHooks ==
  /\ \E k \in 1..Len(stack) : stack[k].k = "flushSchedulerQueue" /\ stack[k].n = 3
  /\ Top.k \in {"flushSchedulerQueue", "callHook", "hook"}
\* the scheduler holds exactly the watchers ws, put in a fresh queue since
\* the reset, with one flush scheduled for them
FreshQueue(ws) ==
  /\ SeqToSet(queue) = ws /\ Len(queue) = Cardinality(ws)
  /\ \A w \in Watchers : has[w] <=> w \in ws
  /\ index = 0 /\ ~flushing
  /\ \A w \in Watchers : circular[w] = 0
  /\ waiting <=> ws # {}
  /\ Count(callbacks, FLUSH) = (IF ws = {} THEN 0 ELSE 1)
  /\ ws # {} => pending /\ timers = 1
\* run() is called by a flush only in its loop, before its reset
RunsInsideLoop ==
  \A j \in Idx("run") : LastBefore("flushEnd", j) < FlushOf(j)

\* C17 as stated: at the moment any activated or updated hook is invoked
\* the scheduler state is fully reset (queue empty, has empty, index 0,
\* waiting and flushing false); a watcher that a hook enqueues is appended
\* to the fresh queue, causes exactly one new deferred flush, and is run by
\* that flush, not by the one that has just finished.
C17_HookSeesReset ==
  /\ [][Logged("hook") => SchedulerIdle]_vars
  /\ [](AmongHooks => FreshQueue(DirtiedSince))
  /\ []RunsInsideLoop

\* C17 amended: the scheduler state is fully reset at the moment the first
\* hook after a flush is invoked; at the moment a later hook is invoked the
\* queue holds the watchers that the hooks before it have enqueued, with
\* has and waiting set for them, index 0 and flushing false.  The rest as
\* stated.
C17_FirstHookSeesReset ==
  /\ [][Logged("hook") =>
         /\ LastEv = "flushEnd" => SchedulerIdle
         /\ FreshQueue(DirtiedSince)]_vars
  /\ [](AmongHooks => FreshQueue(DirtiedSince))
  /\ []RunsInsideLoop

\* a hook wrote obj.a, another hook was invoked after it, and the flush
\* that the write scheduled has run watcher 1 and has ended
C17_Witness ==
  /\ LastEv = "flushEnd"
  /\ Cardinality(Idx("flush")) = 2
  /\ IdxOf("run", 1) \cap Seg # {}
  /\ \E h1, h2 \in Idx("hook") : \E i \in AllWrites(Before) :
       h1 < i /\ i < h2 /\ trace[i].a = 1

\* the step is a call of teardown() of watcher w by user code
TeardownOf(w) == Logged("teardown") /\ trace'[Len(trace')].a = w
\* no pass of get() of watcher w is under way
NotEvaluating(w) == \A k \in 1..Len(stack) : ~(stack[k].k = "get" /\ stack[k].w = w)
\* the step leaves every other watcher alone
OthersKept(ws) == \A x \in Watchers \ ws : watcher'[x] = watcher[x]

\* C18: teardown() of an active watcher W that is not being evaluated
\* takes W out of the subs of every Dep of W.deps, takes W out of
\* vm._watchers unless the vm is being destroyed ($destroy tears the
\* watchers down with _watchers left as it is), and sets active false; a
\* second teardown() changes nothing.
C18_Teardown ==
  [][/\ \A w \in Watchers :
          TeardownOf(w) =>
            IF watcher[w].active /\ NotEvaluating(w)
            THEN /\ \A d \in Deps :
                      subs'[d] = IF d \in SeqToSet(watcher[w].deps)
                                 THEN remove(subs[d], w) ELSE subs[d]
                 /\ \A d \in SeqToSet(watcher[w].deps) : w \notin SeqToSet(subs'[d])
                 /\ ~vm[wopt[w].vm].isBeingDestroyed
                 /\ vm' = [vm EXCEPT ![wopt[w].vm].watchers = remove(@, w)]
                 /\ w \notin SeqToSet(vm'[wopt[w].vm].watchers)
                 /\ ~watcher'[w].active
                 /\ OthersKept({w})
            ELSE ~watcher[w].active => UNCHANGED <<subs, watcher, vm>>
     /\ \A v \in Vms :
          (Logged("destroy") /\ trace'[Len(trace')].a = v /\ ~vm[v].isBeingDestroyed) =>
            /\ vm'[v].watchers = vm[v].watchers
            /\ \A w \in SeqToSet(vm[v].watchers) :
                 /\ ~watcher'[w].active
                 /\ \A d \in SeqToSet(watcher[w].deps) : w \notin SeqToSet(subs'[d])]_vars

\* watcher 1 was torn down while it was active with two Deps in deps, and
\* torn down again: it is inactive, in no subs and not in vm._watchers
C18_Witness ==
  /\ Cardinality(IdxOf("teardown", 1)) = 2
  /\ LastEv = "teardown"
  /\ watcher[1].deps = <<1, OBJ>>
  /\ ~watcher[1].active
  /\ \A d \in Deps : 1 \notin SeqToSet(subs[d])
  /\ vm[1].watchers = <<2>>

\* the calls of teardown() of watcher w: by user code, or by $destroy of
\* its vm
TornDownAt(w) == IdxOf("teardown", w) \cup IdxOf("destroy", wopt[w].vm)

\* C19: a watcher torn down while it is in the queue (before the flush, or
\* during the flush by the run of a watcher before it) has neither its
\* getter evaluated nor its callback invoked when the flush reaches it:
\* run() returns at once; and the flush goes on with the watchers after it.
C19_TornDownPendingSkipped ==
  /\ \A j \in Idx("run") :
       LET w == trace[j].a
       IN (\E t \in TornDownAt(w) : t < j) => Followed(j, <<E("runEnd", w, 0, 0)>>)
  /\ \A w \in Watchers : \A t \in TornDownAt(w) :
       \A i \in IdxOf("getEnd", w) \cup IdxOf("cb", w) : i < t
  /\ LastEv = "flushEnd" =>
       \A w \in PendingAt(Last("flush")) : IdxOf("runEnd", w) \cap Seg # {}

\* watcher 1 was torn down while it was in the queue; the flush reached
\* it, skipped it, ran watcher 2 with its callback, and has ended
C19_Witness ==
  /\ LastEv = "flushEnd"
  /\ PendingAt(Last("flush")) = {1, 2}
  /\ \E t \in IdxOf("teardown", 1) : \E i \in Writes(1, Before) : i < t /\ t < Last("flush")
  /\ IdxOf("run", 1) \cap Seg # {}
  /\ IdxOf("cb", 1) = {}
  /\ IdxOf("cb", 2) \cap Seg # {}

\* the watchers whose last evaluation read a property that holds the
\* observed array and returned it
ArrayWatchers ==
  {w \in Watchers : /\ watcher[w].active /\ wopt[w].path # 0
                    /\ val[wopt[w].path] = ARR /\ ob[ARR]
                    /\ watcher[w].value = ARR}
\* the calls of the patched methods among the events S
Mutations(S) == {i \in S : trace[i].ev = "mutator"}

\* C20: a watcher whose evaluation read a property holding an observed
\* array is a subscriber of the array's own dep; every call of a patched
\* method of the array notifies it (after the call it is in the scheduler
\* queue), although the property still holds the same array; and when
\* the array was mutated before a flush, and obj.a was not written, the
\* flush invokes the callback of the watcher of obj.a exactly once, with
\* the array as the new and as the old value, and no other callback.
C20_ArrayMutation ==
  /\ \A w \in ArrayWatchers : w \in SeqToSet(subs[ARR])
  /\ LastEv = "mutator" /\ (Len(stack) = 0 \/ Top.k # "notify") =>
       \A w \in ArrayWatchers : has[w]
  /\ ( /\ LastEv = "flushEnd"
       /\ Mutations(Before) # {}
       /\ Mutations(Seg) = {}
       /\ AllWrites(Before \cup Seg) = {}
       /\ val[1] = ARR )
     => /\ \E i \in Seg : /\ trace[i] = E("cb", 1, ARR, ARR)
                           /\ IdxOf("cb", 1) \cap Seg = {i}
        /\ IdxOf("cb", 2) \cap Seg = {}

\* obj.a was set to the array, the flush ran; then pop() was called once,
\* and the next flush has invoked the callback once with the array, now
\* shorter, as both values
C20_Witness ==
  /\ LastEv = "flushEnd"
  /\ \E i \in Before : /\ trace[i] = E("mutator", ARR, Method("pop"), 0)
                       /\ Mutations(1..Len(trace)) = {i}
  /\ \E i \in Writes(1, 1..Len(trace)) : trace[i].b = ARR /\ i \notin Before
  /\ \E i \in Seg : trace[i] = E("cb", 1, ARR, ARR)
  /\ items = <<2>>
  /\ val[1] = ARR

\* the event this step logs, if it logs one (else an event of no kind)
Logged1 == IF Len(trace') = Len(trace) + 1 THEN trace'[Len(trace')] ELSE E("", 0, 0, 0)
\* this step calls observe(v): by Vue.observable, for the data of a vm, in
\* initProps, or in reactiveSetter for the value written
Observes(v) ==
  \/ Logged1.ev \in {"observe", "observeProp"} /\ Logged1.a = v
  \/ Logged1.ev = "set" /\ Logged1.b = v /\ Logged1.c = 1
\* the calls of observe(v) by Vue.observable, for a vm and in initProps
ObserveCalls(v) == IdxOf("observe", v) \cup IdxOf("observeProp", v)

\* C21 as stated: every call observe(v) returns the same Observer, and the
\* second and later calls make no Observer and no Dep.
C21_ObserveSame ==
  \A v \in Objects \cup Arrays : \A i \in ObserveCalls(v) : \A j \in ObserveCalls(v) :
     i < j => trace[j].b = trace[i].b /\ trace[j].c = 0

\* C21: once v carries an Observer, v keeps that Observer for ever, and
\* every call observe(v) returns it, makes no Observer and no Dep (but
\* the Dep of the prop in initProps), leaves the accessors of v's keys and
\* their Deps as they are, and leaves every subscription as it is.  (A
\* call while observation is switched off, on a v that carries no
\* Observer, returns none, and a later call makes one.)
C21_ObserveIdempotent ==
  [][\A v \in Objects \cup Arrays :
       ob[v] =>
         /\ ob'[v]
         /\ heap'.obId[v] = heap.obId[v]
         /\ Observes(v) =>
              /\ heap'.uid = heap.uid + (IF Logged1.ev = "observeProp" THEN 1 ELSE 0)
              /\ heap'.obId = heap.obId
              /\ heap'.kdep = heap.kdep
              /\ heap'.kval = heap.kval
              /\ ob' = ob
              /\ subs' = subs
              /\ Logged1.ev # "set" => Logged1.b = heap.obId[v] /\ Logged1.c = 0
              /\ Logged1.ev = "set" => childOb'[Logged1.a] = v]_vars

\* observe(OBJ) was called on the observed OBJ and returned its Observer;
\* then OBJ's key 1 was written, and the flush has run watcher 1, which
\* was subscribed to the key's Dep before the call
C21_Witness ==
  /\ LastEv = "flushEnd"
  /\ IdxOf("run", 1) \cap Seg # {}
  /\ \E i \in IdxOf("observe", OBJ) : \E j \in IdxOf("putKey", 1) :
       /\ trace[i].b = heap.obId[OBJ] /\ trace[i].c = 0
       /\ i < j /\ trace[j].c = heap.kdep[1]
       /\ AllWrites(1..Len(trace)) = {}

\* OBJ carries an Observer and is the root data of no vm
ObservedNonRoot == ob[OBJ] /\ heap.vmCount[OBJ] = 0
\* this step calls Dep.notify of Dep d exactly once, synchronously: the
\* loop over the subscribers d has now is entered
NotifiesOnce(d) == stack' = Push(stack, F("notify", d, 0, subs[d]))
\* this step notifies nobody and changes no subscription
NotifiesNobody == stack' = stack /\ subs' = subs

\* C22: set(OBJ, k, v) on the observed, non-root OBJ for a key k it has not
\* makes k a reactive property with a new Dep of its own and the value v,
\* and notifies the subscribers of OBJ's Observer dep once, in the call; a
\* later read of k under a watcher subscribes the watcher to k's Dep and a
\* later write of another value to k notifies k's Dep once.  del(OBJ, k)
\* of a key OBJ has removes it and notifies the subscribers of OBJ's
\* Observer dep once, in the call; del of a key OBJ has not changes
\* nothing and notifies nobody.
C22_SetDel ==
  [][LET e == Logged1
         k == e.a
     IN /\ e.ev = "setKey" /\ ObservedNonRoot /\ heap.kval[k] = ABSENT =>
             /\ heap'.kval[k] = e.b
             /\ heap'.kdep[k] = KeyDep(heap.uid) /\ heap'.uid = heap.uid + 1
             /\ \A j \in Keys : heap.kdep[j] # heap'.kdep[k]
             /\ subs[heap'.kdep[k]] = <<>>
             /\ NotifiesOnce(OBJ) /\ e.c = OBJ
        /\ e.ev = "getKey" /\ heap.kdep[k] # 0 =>
             /\ e.c \in SeqToSet(subs'[heap.kdep[k]])
             /\ e.c \in Watchers
        /\ e.ev \in {"putKey", "setKey"} /\ heap.kdep[k] # 0 /\ e.b # heap.kval[k] =>
             /\ heap'.kval[k] = e.b /\ heap'.kdep = heap.kdep
             /\ NotifiesOnce(heap.kdep[k])
        /\ e.ev = "del" /\ ObservedNonRoot /\ heap.kval[k] # ABSENT =>
             /\ heap'.kval[k] = ABSENT /\ heap'.kdep[k] = 0
             /\ NotifiesOnce(OBJ)
        /\ e.ev = "del" /\ heap.kval[k] = ABSENT =>
             /\ heap' = heap
             /\ NotifiesNobody]_vars

\* set(OBJ, 2, 1) made key 2; the flush it caused ran watcher 1, whose
\* getter read key 2; then 2 was written to key 2 and watcher 1 is in the
\* queue again
C22_Witness ==
  /\ has[1] /\ queue = <<1>> /\ ~flushing
  /\ \E i \in IdxOf("setKey", 2) : \E j \in IdxOf("getKey", 2) : \E m \in IdxOf("putKey", 2) :
       /\ trace[i].c = OBJ
       /\ i < j /\ trace[j].c = 1
       /\ j < m /\ trace[m].c = heap.kdep[2] /\ trace[m].c # 0
       /\ IdxOf("flushEnd", 0) \cap j..m # {}

\* the calls of nextTick without a callback: the events of n-th calls
PromiseCalls == {i \in Idx("nextTick") : isPromiseEntry(trace[i].a)}

\* C23: the promise returned by nextTick() is resolved exactly when the
\* pass of flushCallbacks reaches its entry: it is unresolved before, the
\* pass that resolves it began after the call, the entries are reached in
\* the order of the calls of nextTick (with or without callback), and
\* when a pass has ended every promise returned before it began is
\* resolved.
C23_PromiseResolved ==
  /\ Proj("tick") = SubSeq(Proj("nextTick"), 1, Len(Proj("tick")))
  /\ \A i \in PromiseCalls :
       LET n == PromiseOf(trace[i].a)
           t == IdxOf("tick", trace[i].a)
       IN /\ n \in resolved <=> t # {}
          /\ Cardinality(t) <= 1
          /\ \A r \in t : /\ trace[r + 1] = E("resolve", n, 0, 0)
                           /\ LastBefore("flushCallbacks", r) > i
                           /\ LastBefore("flushCallbacksEnd", r) < LastBefore("flushCallbacks", r)
          /\ LastEv = "flushCallbacksEnd" /\ i < Last("flushCallbacks") => n \in resolved
  /\ \A n \in resolved : PromiseEntry(n) \in {trace[i].a : i \in PromiseCalls}

\* a callback, a promise and a callback were registered in this order;
\* one pass has called the first callback, resolved the promise and
\* called the second callback
C23_Witness ==
  /\ LastEv = "flushCallbacksEnd"
  /\ Proj("nextTick") = <<1, PromiseEntry(2), 3>>
  /\ Proj("tick") = <<1, PromiseEntry(2), 3>>
  /\ Cardinality(Idx("flushCallbacks")) = 1
  /\ resolved = {2}

\* run() of watcher w has re-evaluated and decides about the callback
Decides(w) == Len(stack) > 0 /\ ~exc /\ Top.k = "run" /\ Top.n = 1 /\ Top.w = w /\ stack' # stack

\* C24: when run() of an active watcher has re-evaluated, it invokes the
\* callback if and only if the new value differs from the stored one (NaN
\* and NaN counting as equal), or is an object or an array, or the
\* watcher is deep.
C24_CallbackIffChanged ==
  [][\A w \in Watchers :
       Decides(w) =>
         (Logged1.ev = "cb" <=>
            ~sameValue(ret, watcher[w].value) \/ isObject(ret) \/ wopt[w].deep)]_vars

\* the calls of run() by the loop of the flush that event j belongs to,
\* and pairs of them with no call of run() in between
NextRun(j1, j2) ==
  /\ j1 \in Idx("run") /\ j2 \in Idx("run") /\ j1 < j2
  /\ FlushOf(j1) = FlushOf(j2)
  /\ \A m \in (j1 + 1)..(j2 - 1) : trace[m].ev \notin {"run", "flushEnd"}

\* C25 as stated: in a flush the ids of the watchers, in the order run()
\* is called, never decrease.
C25_RunOrderNonDecreasing ==
  \A j1 \in Idx("run") : \A j2 \in Idx("run") :
     NextRun(j1, j2) => trace[j1].a <= trace[j2].a

\* C25: in a flush the ids of the watchers, in the order run() is called,
\* decrease only at a watcher that was put in the queue during the run
\* just before: when run() of a watcher follows run() of one with a
\* greater id, the property it watches was written during that run.
C25_RunOrder ==
  \A j1 \in Idx("run") : \A j2 \in Idx("run") :
     NextRun(j1, j2) /\ trace[j2].a < trace[j1].a =>
       Writes(wopt[trace[j2].a].path, (j1 + 1)..(j2 - 1)) # {}

\* a flush ran watcher 2, whose callback wrote obj.a, then watcher 1, and
\* has ended
C25_Witness ==
  /\ LastEv = "flushEnd"
  /\ \E j1 \in IdxOf("run", 2) : \E j2 \in IdxOf("run", 1) :
       /\ NextRun(j1, j2) /\ j1 > Last("flush")
       /\ Writes(1, (j1 + 1)..(j2 - 1)) # {}

\* the step puts watcher w in the queue while flushing is set
InsertsMidFlush(w) == flushing /\ ~has[w] /\ has'[w]
\* q is p with w put in at position i
InsertedAt(q, p, w, i) ==
  /\ i \in 1..Len(q) /\ Len(q) = Len(p) + 1
  /\ q[i] = w
  /\ SubSeq(q, 1, i - 1) = SubSeq(p, 1, i - 1)
  /\ SubSeq(q, i + 1, Len(q)) = SubSeq(p, i, Len(p))
\* the part of the queue behind the cursor is sorted ascending by id
TailSorted(q) ==
  \A i \in (index + 2)..Len(q) : \A j \in (index + 2)..Len(q) : i < j => q[i] <= q[j]
\* watcher w is pending and was put in the queue during the flush under
\* way: it was not in the queue when the flush started, or the flush has
\* already run it
InsertedPending(w) ==
  /\ flushing /\ has[w]
  /\ \/ w \notin PendingAt(Last("flush"))
     \/ IdxOf("run", w) \cap Seg # {}
\* queueWatcher during a flush: the watcher goes behind the cursor, the
\* cursor stays, the part behind the cursor stays sorted; has[w] is
\* cleared only by the flush calling w.run() or by the reset of a flush
\* left by the test for circular updates
InsertedBehindCursor ==
  /\ [][\A w \in Watchers :
         /\ InsertsMidFlush(w) =>
              /\ \E i \in (index + 2)..Len(queue') : InsertedAt(queue', queue, w, i)
              /\ index' = index
         /\ (has[w] /\ ~has'[w]) => (FlushRuns(w) \/ BrokenReset)]_vars
  /\ [](flushing => TailSorted(queue))

Observable == Len(stack) = 0 \/ Top.k \in UserFrames
\* the positions of the queue behind the cursor during a flush, all of
\* them when no flush is under way
NotYetRun == IF flushing THEN (index + 2)..Len(queue) ELSE 1..Len(queue)
\* the loop of a flush has reached a watcher and has not yet cleared
\* has[id] for it: the position of that watcher
AtCursor ==
  IF \E k \in 1..Len(stack) : stack[k].k = "flushSchedulerQueue" /\ stack[k].n \in {0, 4}
  THEN {index + 1} \cap (1..Len(queue)) ELSE {}
\* no watcher is twice at the positions S of the queue, and has[id] is set
\* exactly for the watchers there
PendingExactly(S) ==
  /\ \A i \in S : \A j \in S : queue[i] = queue[j] => i = j
  /\ \A w \in Watchers : has[w] <=> \E i \in S : queue[i] = w
\* update() of a queued watcher calls queueWatcher in this step
QueueWatcherCalled(w) ==
  /\ Running("notify") /\ Top.n < Len(Top.s) /\ Top.s[Top.n + 1] = w
  /\ ~wopt[w].lazy /\ ~wopt[w].sync
\* queueWatcher of a watcher already pending changes neither the queue
\* nor a flag, and requests no flush
PendingIgnored ==
  [][\A w \in Watchers :
       QueueWatcherCalled(w) /\ has[w] => UNCHANGED <<schedVars, tickVars, trace>>]_vars

\* C27 as stated: in every state a program can observe no watcher is
\* twice among the entries of the queue not yet run (the whole queue
\* when no flush is under way, the entries behind the cursor during a
\* flush) and has[id] is set exactly for the watchers there; queueWatcher
\* of a watcher already pending changes neither the queue nor a flag.
C27_Dedup ==
  /\ [](Observable => PendingExactly(NotYetRun))
  /\ PendingIgnored

\* C27 amended: as stated, with the entry at the cursor counted among
\* the entries not yet run until the loop has cleared has[id] for it,
\* that is while the before hook of that watcher runs.
C27_DedupBeforeHook ==
  /\ [](PendingExactly(NotYetRun \cup AtCursor))
  /\ PendingIgnored

\* the hook beforeUpdate of vm 1 wrote what render watcher 1 reads while
\* watcher 1 was at the cursor with has[1] set: queueWatcher left the
\* queue alone
C27_Witness ==
  /\ Len(stack) > 0 /\ Top.k = "hook" /\ Top.n = 3
  /\ flushing /\ has[1] /\ queue[index + 1] = 1
  /\ Len(queue) = 2
  /\ Writes(1, (Last("before") + 1)..Len(trace)) # {}

\* the loop of a flush is under way
LoopRunning ==
  \E k \in 1..Len(stack) : stack[k].k = "flushSchedulerQueue" /\ stack[k].n \in {0, 1, 2, 4}
\* the events this step logs
NewEvents == {trace'[i] : i \in (Len(trace) + 1)..Len(trace')}
\* this step calls nextTick(flushSchedulerQueue)
RequestsFlush == E("nextTick", FLUSH, 0, 0) \in NewEvents
\* this step puts watcher w in the queue
Enqueues(w) == QueueWatcherCalled(w) /\ ~has[w]
\* the last event with which a flush ended: its reset, or run() left by
\* an exception that leaves flushSchedulerQueue
LastEnd ==
  LET ends == Idx("flushEnd") \cup {i \in Idx("runThrow") : ~wopt[trace[i].a].sync}
  IN IF ends = {} THEN 0 ELSE Max(ends)
\* nextTick(flushSchedulerQueue) was not called since the last flush ended
NoRequestSince ==
  \A i \in (LastEnd + 1)..Len(trace) : trace[i] # E("nextTick", FLUSH, 0, 0)
\* the calls of flushSchedulerQueue the deferred callbacks hold: in the
\* list, and in the copies flushCallbacks has not called yet
Outstanding ==
  Count(callbacks, FLUSH)
    + Cardinality({<<k, i>> \in (1..Len(stack)) \X (1..(Len(callbacks) + MaxOps + 1)) :
                     /\ stack[k].k = "flushCallbacks"
                     /\ i \in (stack[k].n + 1)..Len(stack[k].s)
                     /\ stack[k].s[i] = FLUSH})
\* at most one call of flushSchedulerQueue is held by the deferred
\* callbacks, only queueWatcher of a watcher not pending, outside a
\* flush, asks for one, and no flush starts while one is under way
RequestsSingle ==
  /\ [](Outstanding <= 1)
  /\ [][RequestsFlush => \E w \in Watchers : Enqueues(w) /\ ~LoopRunning]_vars
  /\ [][Logged("flush") \/ E("flush", 0, 0, 0) \in NewEvents => ~flushing /\ ~LoopRunning]_vars

UpdateCalled(w) == Running("notify") /\ Top.n < Len(Top.s) /\ Top.s[Top.n + 1] = w
\* the stack once the loop of notify has gone on to its next subscriber
NotifyAdvanced == SetTop(stack, [Top EXCEPT !.n = @ + 1])
\* the calls of run() of watcher w that have begun and those that are over
RunsBegun(w) == Cardinality(IdxOf("run", w))
RunsOver(w) == Cardinality(IdxOf("runEnd", w)) + Cardinality(IdxOf("runThrow", w))
\* a frame of watcher w of kind k is on the stack at position i
FrameAt(i, k, w) == stack[i].k = k /\ stack[i].w = w
\* what update() does in the step that calls it
UpdateDispatch ==
  [][\A w \in Watchers :
       UpdateCalled(w) =>
         IF wopt[w].lazy
         THEN /\ watcher' = [watcher EXCEPT ![w].dirty = TRUE]
              /\ stack' = NotifyAdvanced
              /\ UNCHANGED <<schedVars, tickVars>>
         ELSE IF wopt[w].sync
         THEN /\ stack' = Push(NotifyAdvanced, F("run", w, 0, <<>>))
              /\ UNCHANGED <<schedVars, tickVars>>
         ELSE /\ has'[w]
              /\ \E i \in NotYetRun' \cup AtCursor' : queue'[i] = w
              /\ UNCHANGED watcher
              /\ \A i \in 1..Len(stack') : ~FrameAt(i, "run", w)' \/ i <= Len(stack)]_vars
\* a lazy or sync watcher is never in the queue
NeverQueued ==
  \A w \in Watchers :
    wopt[w].lazy \/ wopt[w].sync => ~has[w] /\ w \notin SeqToSet(queue)
\* where the code of a watcher runs: run() of a sync watcher is called by
\* the loop of notify, inside the write, and is over when that loop goes
\* on; run() of a queued watcher is called by the loop of a flush only;
\* the getter of a lazy watcher is called by the computed getter only
CalledFrom ==
  \A i \in 1..Len(stack) : \A w \in Watchers :
    /\ FrameAt(i, "run", w) /\ wopt[w].sync =>
         i > 1 /\ stack[i - 1].k = "notify" /\ stack[i - 1].s[stack[i - 1].n] = w
    /\ FrameAt(i, "run", w) /\ ~wopt[w].sync =>
         i > 1 /\ stack[i - 1].k = "flushSchedulerQueue" /\ stack[i - 1].n = 1
    /\ FrameAt(i, "get", w) =>
         i > 1 /\ stack[i - 1].w = w
               /\ stack[i - 1].k = (IF wopt[w].lazy THEN "computedGetter" ELSE "run")
    /\ stack[i].k \in {"getter", "watchcb"} /\ stack[i].w = w =>
         i > 1 /\ stack[i - 1].w = w /\ stack[i - 1].k \in {"get", "run"}
\* the loop of notify goes on or returns, the write returns: run() of the
\* sync watchers it has called is over
SyncRunsOver ==
  \A w \in Watchers :
    wopt[w].sync /\ (\A i \in 1..Len(stack) : ~FrameAt(i, "run", w)) =>
      RunsBegun(w) = RunsOver(w)

\* C29: update() of a lazy watcher only sets dirty (getter not called, not
\* enqueued); update() of a sync watcher calls run(), which is over, its
\* callback included, before the write that notified returns, and the
\* watcher is never in the queue; update() of any other watcher enqueues
\* it, and its getter and callback are called by a flush only.
C29_UpdateDispatch ==
  /\ UpdateDispatch
  /\ [](NeverQueued /\ CalledFrom /\ SyncRunsOver)

\* one write of obj.a has notified a computed property, now dirty and not
\* evaluated again, and a sync watcher whose callback was called before
\* the write returned
C29_Witness ==
  /\ wopt[1].lazy /\ wopt[2].sync
  /\ Len(stack) = 1 /\ Top.k = "turn"
  /\ watcher[1].dirty /\ Len(watcher[1].deps) > 0
  /\ LastEv = "runEnd"
  /\ \E i \in Writes(1, 1..Len(trace)) : \E j \in IdxOf("cb", 2) :
       /\ i < j
       /\ \A k \in (i + 1)..Len(trace) : trace[k].ev \in {"dirty", "run", "getEnd", "cb", "runEnd"}

\* the events of the pass of Watcher.get of w under way or just over,
\* which run() of w began
PassOf(w) == (Max(IdxOf("run", w) \cup {0}) + 1)..Len(trace)
\* the reads, in the events S, of the computed property of lazy watcher l
\* with Dep.target = w: computedGetter returned to the function of w
ReadsOf(l, w, S) == {i \in S : trace[i].ev = "computed" /\ trace[i].a = l /\ trace[i].b = w}
\* the calls of evaluate() of lazy watcher l in the events S
Evaluations(l, S) == {i \in S : trace[i].ev = "evaluate" /\ trace[i].a = l}
\* this step ends a pass of get() of watcher w that run() called
PassEnds(w) ==
  /\ Len(stack) > 0 /\ ~exc /\ Top.k = "get" /\ Top.w = w /\ Top.n \in {2, 3}
  /\ IdxOf("run", w) # {}
\* the last pass of w that is over read the computed property of l
WatchesThrough(l, w) ==
  LET ends == IdxOf("getEnd", w)
  IN IF ends = {}
     THEN wopt[l].init # <<>> /\ ~wopt[w].lazy /\ l < w
     ELSE ReadsOf(l, w, (Max({i \in IdxOf("run", w) : i < Max(ends)}) + 1)..Max(ends)) # {}
\* a pass of w is under way
Evaluating(w) == \E i \in 1..Len(stack) : FrameAt(i, "get", w)
\* lazy watcher l was made dirty between the last pass of w that is over
\* and the run() of w under way
DirtiedBefore(l, w) ==
  LET r == Max(IdxOf("run", w))
      e == Max((IdxOf("getEnd", w) \cap (1..r)) \cup {0})
      ds == {i \in (e + 1)..r : trace[i].ev = "dirty" /\ trace[i].a = l}
  IN ds # {}
\* when a pass of W that read the computed property of L ends, W is a
\* subscriber of every Dep of L.deps; when the loop of notify that made L
\* dirty is over and the last pass of W read the computed property, W is
\* in the queue
SubscribedThrough ==
  /\ [][\A l \in Watchers : \A w \in Watchers :
         wopt[l].lazy /\ PassEnds(w) /\ ReadsOf(l, w, PassOf(w)) # {} =>
           \A d \in SeqToSet(watcher'[l].deps) :
              w \in SeqToSet(subs'[d]) /\ d \in watcher'[w].depIds]_vars
  /\ [][\A l \in Watchers : \A w \in Watchers :
         /\ wopt[l].lazy /\ ~wopt[w].lazy /\ ~wopt[w].sync /\ watcher[w].active
         /\ Running("notify") /\ Top.n = Len(Top.s)
         /\ l \in SeqToSet(Top.s)
         /\ WatchesThrough(l, w) /\ ~Evaluating(w)
         => watcher[l].dirty /\ has[w]]_vars
\* computedGetter calls evaluate() exactly when the watcher is dirty
EvaluatesWhenDirty ==
  [][\A l \in Watchers :
       Logged1.a = l /\ Logged1.ev \in {"evaluate", "computed"} /\ Logged1.c = 0 =>
         (Logged1.ev = "evaluate" <=> watcher[l].dirty)]_vars

\* C30 as stated, W = watcher 2, L = watcher 1: a pass of W that read the
\* computed property of L leaves W subscribed to every Dep of L.deps; a
\* later change of one of them sets L.dirty and enqueues W; the next pass
\* of W, reading the computed property, calls L.evaluate() exactly once.
C30_Transitive ==
  /\ SubscribedThrough
  /\ [][PassEnds(2) /\ ReadsOf(1, 2, PassOf(2)) # {} /\ DirtiedBefore(1, 2) =>
          Cardinality(Evaluations(1, PassOf(2))) = 1]_vars

\* evaluate() of lazy watcher l returned, in the events S
Evaluated(l, S) == {i \in S : trace[i].ev = "computed" /\ trace[i].a = l /\ trace[i].c = 1}
\* the last time lazy watcher l was made dirty before event j
LastDirty(l, j) == Max({i \in 1..(j - 1) : trace[i].ev = "dirty" /\ trace[i].a = l} \cup {0})
\* dirty of a lazy watcher is set by update() and by the constructor, and
\* cleared when evaluate() returns
DirtyHistory ==
  \A l \in Watchers :
    wopt[l].lazy =>
      (watcher[l].dirty <=>
         LET n == Len(trace) + 1
         IN IF LastDirty(l, n) = 0 /\ Evaluated(l, 1..Len(trace)) = {}
            THEN wopt[l].init = <<>>
            ELSE Evaluated(l, (LastDirty(l, n) + 1)..Len(trace)) = {})

\* C30 amended: the next pass of W calls L.evaluate() at its first read of
\* the computed property if L is still dirty then, and does not call it
\* there if the computed property was read, and L so evaluated, between
\* the change and that read.
C30_TransitiveWhenDirty ==
  /\ SubscribedThrough
  /\ EvaluatesWhenDirty
  /\ []DirtyHistory
  /\ [][PassEnds(2) /\ ReadsOf(1, 2, PassOf(2)) # {} /\ DirtiedBefore(1, 2) =>
          LET j == Min(ReadsOf(1, 2, PassOf(2)) \cup Evaluations(1, PassOf(2)))
          IN trace[j].ev = "evaluate" <=> Evaluated(1, (LastDirty(1, j) + 1)..(j - 1)) = {}]_vars

\* obj.a was written: L dirty, W enqueued; the flush ran W, whose function
\* read the computed property; L was evaluated once in that pass and W is
\* again a subscriber of the Deps of L
C30_Witness ==
  /\ LastEv = "flushEnd"
  /\ IdxOf("dirty", 1) # {} /\ IdxOf("run", 2) # {}
  /\ Evaluations(1, Before) = {}
  /\ Cardinality(Evaluations(1, PassOf(2))) = 1
  /\ ReadsOf(1, 2, PassOf(2)) # {}
  /\ watcher[1].deps # <<>>
  /\ \A d \in SeqToSet(watcher[1].deps) : 2 \in SeqToSet(subs[d])

\* the loop of Dep.notify calls update() of the watcher next in the list
\* its frame holds, in this step
NotifyCalls(w) ==
  /\ Running("notify") /\ Len(stack') >= Len(stack)
  /\ Top.n < Len(Top.s) /\ Top.s[Top.n + 1] = w
\* update() of watcher w is called in this step: what it does at once
Updated(w) ==
  IF wopt[w].lazy THEN Logged1 = E("dirty", w, Top.w, 0) /\ watcher'[w].dirty
  ELSE IF wopt[w].sync THEN Logged1 = E("run", w, 0, 0)
  ELSE has'[w]
\* update() of watcher w is not called in this step
NotUpdated(w) ==
  /\ has'[w] = has[w] /\ watcher'[w] = watcher[w]
  /\ ~(Logged1.ev \in {"dirty", "run"} /\ Logged1.a = w)
\* the frame of a notify() leaves the stack in this step: it returns, or
\* an exception leaves it
NotifyLeaves == Len(stack) > 0 /\ Top.k = "notify" /\ stack' = Pop(stack)
\* the list the loop walks is the list of subscribers notify() found when
\* it was entered, and every step of the loop calls update() of the next
\* watcher of that list and of no other
WalksSnapshot ==
  /\ [][\A d \in Deps :
          Len(stack') = Len(stack) + 1 /\ stack'[Len(stack')].k = "notify"
            /\ stack'[Len(stack')].w = d /\ Len(stack) > 0 /\ Top.k # "notify"
          => stack'[Len(stack')].s = subs[d] /\ stack'[Len(stack')].n = 0]_vars
  /\ [][Running("notify") /\ Len(stack') >= Len(stack) =>
          /\ Top.n < Len(Top.s)
          /\ stack'[Len(stack)] = [Top EXCEPT !.n = @ + 1]
          /\ \A w \in Watchers :
               IF Top.s[Top.n + 1] = w THEN Updated(w) ELSE NotUpdated(w)]_vars
\* run() of a watcher torn down before does nothing: no evaluation, no
\* callback
TornDownIdle ==
  \A j \in Idx("run") :
    LET w == trace[j].a
    IN (\E t \in TornDownAt(w) : t < j) /\ j < Len(trace) => trace[j + 1] = E("runEnd", w, 0, 0)

FlushOnStack == \E i \in 1..Len(stack) : stack[i].k = "flushSchedulerQueue"
\* without batching the list notify() walks is subs sorted by id
WalksAscending ==
  /\ [][\A d \in Deps :
          Len(stack') = Len(stack) + 1 /\ stack'[Len(stack')].k = "notify"
            /\ stack'[Len(stack')].w = d /\ Len(stack) > 0 /\ Top.k # "notify"
          => /\ SeqToSet(stack'[Len(stack')].s) = SeqToSet(subs[d])
             /\ Len(stack'[Len(stack')].s) = Len(subs[d])]_vars
  /\ [](\A i \in 1..Len(stack) :
          stack[i].k = "notify" =>
            \A a, b \in 1..Len(stack[i].s) : a < b => stack[i].s[a] < stack[i].s[b])
\* update() of a watcher that is not lazy calls its run() at once: run()
\* itself when sync, else through queueWatcher and a flush of that one
\* watcher
RunsAtOnce(w) ==
  IF wopt[w].sync
  THEN stack' = Push(NotifyAdvanced, F("run", w, 0, <<>>))
  ELSE /\ stack' = Push(NotifyAdvanced, F("flushSchedulerQueue", 0, 0, <<>>))
       /\ queue' = <<w>> /\ index' = 0 /\ flushing' /\ has'[w]
\* update() of a queued watcher only enqueues it
OnlyEnqueues(w) ==
  /\ stack' = NotifyAdvanced
  /\ has'[w] /\ w \in SeqToSet(queue')
  /\ RunsBegun(w)' = RunsBegun(w)
\* the flush that update() started returns to notify(): the watcher
\* updated was run by it, run() is over, and the scheduler is reset
FlushInsideUpdate ==
  [][/\ Len(stack) > 1 /\ Top.k = "flushSchedulerQueue" /\ ~exc
     /\ stack[Len(stack) - 1].k = "notify" /\ stack' = Pop(stack)
     => LET nf == stack[Len(stack) - 1]
            w == nf.s[nf.n]
        IN /\ \E r \in IdxOf("run", w) : \E k \in IdxOf("runEnd", w) :
                Last("flush") < r /\ r < k
           /\ SchedulerIdle]_vars

Pushing(f) == (f.k = "get" /\ f.n >= 1) \/ f.k \in {"callHook", "getData", "$watch"}
PushedBy(f) == IF f.k = "get" THEN f.w ELSE UNDEF
TargetsOf(st) == LET fs == SelectSeq(st, Pushing) IN [i \in 1..Len(fs) |-> PushedBy(fs[i])]
\* Dep.target is the top of targetStack
TargetIsTop == targetStack # <<>> => target = targetStack[Len(targetStack)]
\* targetStack holds what the calls under way have pushed and nothing
\* else: a call that is over (returned or left by its exception) has
\* popped what it pushed, and the stack is as the call found it
CallsBalanced == targetStack = TargetsOf(stack)
\* some call of Watcher.get, callHook, getData or $watch has begun
ContextUsed == Idx("getEnd") \cup Idx("hook") \cup Idx("data") \cup Idx("immediate") # {}

\* C33 as stated: Dep.target is the top of targetStack whenever the stack
\* is not empty, and a call of Watcher.get, callHook or getData that is
\* over leaves targetStack and Dep.target as it found them; so with no
\* call under way Dep.target is null, as it was at the start.
C33_ContextRestored ==
  /\ TargetIsTop
  /\ CallsBalanced
  /\ targetStack = <<>> => target = 0

\* C33 amended: as stated, except that a call made with targetStack
\* empty leaves Dep.target undefined (popTarget reads the top of the
\* empty stack), also when it found it null.
C33_ContextRestoredOrUndefined ==
  /\ TargetIsTop
  /\ CallsBalanced
  /\ targetStack = <<>> => target = (IF ContextUsed THEN UNDEF ELSE 0)

\* the function of watcher 1 read the computed property, whose function
\* had a hook called; the hook has returned and the function of the
\* computed property goes on with Dep.target = watcher 2 above watcher 1
C33_Witness ==
  /\ Len(stack) > 0 /\ ~exc /\ Top.k = "getter" /\ Top.w = 2
  /\ targetStack = <<1, 2>> /\ target = 2
  /\ \E e \in IdxOf("evaluate", 2) : \E h \in Idx("hook") : e < h /\ trace[e].b = 1

\* user code run by callHook, by getData or as the immediate callback of
\* $watch is executing
Suppressed == Len(stack) > 0 /\ Top.k \in {"hook", "data", "immediate"}
\* the dependency sets of watcher w and its subscriptions do not grow
NothingAdded(w) ==
  /\ watcher'[w].newDeps = watcher[w].newDeps
  /\ watcher'[w].newDepIds = watcher[w].newDepIds
  /\ \A d \in Deps : Count(subs'[d], w) <= Count(subs[d], w)
\* the watcher whose evaluation is the innermost under way in st, if any
Innermost(st) ==
  LET gs == {i \in 1..Len(st) : st[i].k = "get" /\ st[i].n >= 1}
  IN IF gs = {} THEN UNDEF ELSE st[Max(gs)].w

\* C34: while a hook run by callHook, a data function run by getData or
\* an immediate $watch callback executes, Dep.target is not a watcher;
\* what that code does (reads of reactive properties and of computed
\* properties included) adds no Dep to the dependency set of any
\* watcher and no watcher to the subs of any Dep, in particular not of
\* the watcher W that is evaluating; a step made with another target
\* than W adds nothing to W; and when callHook, getData or $watch
\* returns, Dep.target is W again if no later pushTarget is outstanding.
C34_TrackingSuppressed ==
  /\ [](Suppressed => target = UNDEF)
  /\ [][Suppressed => \A w \in Watchers : NothingAdded(w) /\ watcher'[w].deps = watcher[w].deps]_vars
  /\ [][\A w \in Watchers : w # target => NothingAdded(w)]_vars
  /\ [][/\ Len(stack) > 0 /\ Top.k \in {"callHook", "getData", "$watch"}
        /\ stack' = Pop(stack) /\ Len(stack') > 0 /\ stack'[Len(stack')].k = "getter"
        => target' = Innermost(stack')]_vars

\* a write of obj.a ran watcher 1, whose function had a hook called; the
\* hook read obj.a and returned; the function goes on with Dep.target =
\* watcher 1 and the pass has collected no Dep
C34_Witness ==
  /\ Len(stack) > 0 /\ ~exc /\ Top.k = "getter" /\ Top.w = 1
  /\ target = 1 /\ targetStack = <<1>>
  /\ watcher[1].newDeps = <<>> /\ watcher[1].newDepIds = {}
  /\ \E h \in Idx("hook") : \E r \in IdxOf("read", 1) :
       h < r /\ trace[r].b = FrameCode("hook") /\ r = Len(trace)

\* the vms passed to queueActivatedComponent between events lo and hi of
\* the history, in the order of the calls
Passed(lo, hi) ==
  LET sel == SelectSeq(SubSeq(trace, lo + 1, hi), LAMBDA e : e.ev = "activate")
  IN [i \in 1..Len(sel) |-> sel[i].a]
\* the hooks called since event lo of the history, as indices
HooksSince(lo) == {i \in Idx("hook") : i > lo}
\* vm v was destroyed before event i of the history
DestroyedBefore(v, i) == \E d \in IdxOf("destroy", v) : d < i
\* the hooks hs (indices of the history, ascending, from the j-th on) are
\* the calls that the loops of callActivatedHooks and callUpdatedHooks
\* make for the entries of s from the k-th on: one activated hook for
\* every vm entered, one updated hook for every watcher entered that is
\* the render watcher of a vm not destroyed when the loop reaches it
RECURSIVE Delivers(_, _, _, _)
Delivers(s, k, hs, j) ==
  IF k > Len(s) THEN j > Len(hs)
  ELSE LET e == s[k]
           now == IF j <= Len(hs) THEN hs[j] ELSE Len(trace) + 1
           called == j <= Len(hs) /\ trace[hs[j]] = E("hook", hookVm(e), hookKind(e), 0)
       IN IF e > 0 THEN called /\ Delivers(s, k + 1, hs, j + 1)
          ELSE IF wopt[-e].render /\ ~DestroyedBefore(hookVm(e), now)
          THEN called /\ Delivers(s, k + 1, hs, j + 1)
          ELSE Delivers(s, k + 1, hs, j)
\* a set of indices as the ascending sequence
RECURSIVE Ascending(_)
Ascending(S) == IF S = {} THEN <<>> ELSE Ascending(S \ {Max(S)}) \o <<Max(S)>>
\* watcher.before() is called right before watcher.run(): what lies
\* between the two in the history is what the handler of beforeUpdate did
BeforeThenRun ==
  /\ \A b \in Idx("before") :
       \A i \in (b + 1)..Len(trace) :
         (\A m \in (b + 1)..(i - 1) : trace[m].ev \in {"set", "activate", "destroy", "nextTick", "timerFunc"})
           => trace[i].ev \in {"set", "activate", "destroy", "nextTick", "timerFunc"}
              \/ trace[i] = E("run", trace[b].a, 0, 0)
  /\ \A r \in Idx("run") :
       hasBefore(trace[r].a) =>
         \E b \in IdxOf("before", trace[r].a) :
           b < r /\ \A m \in (b + 1)..(r - 1) : trace[m].ev \notin {"run", "before", "flush", "flushEnd", "hook"}
\* the copies taken after the loop: the vms passed to
\* queueActivatedComponent since the flush before took its copies, and
\* the queue from its end
CopiesTaken ==
  [][Logged("flushEnd") =>
       stack'[Len(stack')].s
         = Passed(Last("flushEnd"), Len(trace))
             \o [i \in 1..Len(queue) |-> 0 - queue[Len(queue) + 1 - i]]]_vars
\* flushSchedulerQueue returns: the hooks called since its loop ended are
\* those of its copies, in the order of the copies
HooksDelivered ==
  [][/\ Len(stack) > 0 /\ Top.k = "flushSchedulerQueue" /\ Top.n = 3 /\ stack' = Pop(stack)
     => Delivers(Top.s, 1, Ascending(HooksSince(Last("flushEnd"))), 1)]_vars

\* C35 as stated: before() of a watcher is called right before its run();
\* after the loop every vm passed to queueActivatedComponent during this
\* flush has its activated hook called once, in the order passed, before
\* any updated hook; the updated hooks are called from the end of the
\* queue, larger id first, for render watchers of mounted vms that are not
\* destroyed.
C35_HookOrder ==
  /\ []BeforeThenRun
  /\ HooksDelivered
  /\ [][/\ Len(stack) > 0 /\ Top.k = "flushSchedulerQueue" /\ Top.n = 3 /\ stack' = Pop(stack)
        => /\ \A a \in Idx("activate") :
                a > Last("flush") =>
                  \E h \in HooksSince(Last("flushEnd")) : trace[h] = E("hook", trace[a].a, 1, 0)
           /\ \A h1, h2 \in HooksSince(Last("flushEnd")) :
                h1 < h2 /\ trace[h1].b = 2 /\ trace[h2].b = 2 => trace[h1].a >= trace[h2].a]_vars

\* C35 amended: the vms whose activated hook is called are those passed to
\* queueActivatedComponent since the flush before took its copies and
\* before this one takes its own (a vm passed by a hook, after the loop,
\* waits for the next flush); the updated hooks are called from the end
\* of the queue, which is larger id first unless a watcher was put into
\* the queue during the flush behind a watcher with a larger id.
C35_HookOrderOfCopies ==
  /\ []BeforeThenRun
  /\ CopiesTaken
  /\ HooksDelivered

\* a flush ran watchers 1 and 2 with before() called before each run(),
\* took its copies with vm 2 passed to queueActivatedComponent, and has
\* returned after the activated hook of vm 2 and the updated hooks of
\* vm 2 and vm 1, in that order
C35_Witness ==
  /\ LastEv = "hook" /\ Last("flushEnd") > 0
  /\ Len(stack) = 1 /\ Top.k = "flushCallbacks"
  /\ \E b1 \in IdxOf("before", 1) : \E b2 \in IdxOf("before", 2) :
       b1 < b2 /\ b2 < Last("flushEnd")
  /\ LET hs == Ascending(HooksSince(Last("flushEnd")))
     IN /\ Len(hs) = 3
        /\ trace[hs[1]] = E("hook", 2, 1, 0)
        /\ trace[hs[2]] = E("hook", 2, 2, 0)
        /\ trace[hs[3]] = E("hook", 1, 2, 0)

(***************************************************************************)
(* C36: the root guard of set and del, and vmCount.                        *)
(***************************************************************************)
\* OBJ carries an Observer that some vm has as its root data
RootData == ob[OBJ] /\ heap.vmCount[OBJ] > 0
\* this step is a call the guard of set and del stops: set(OBJ, k, v) of a
\* key OBJ does not have or del(OBJ, k) while OBJ is root data, set(vm, k,
\* v) of a key the vm does not have, or del(vm, k)
GuardedCall ==
  \/ Logged("setKey") /\ RootData /\ heap.kval[Logged1.a] = ABSENT
  \/ Logged("del") /\ RootData
  \/ Logged("setVm")
  \/ Logged("delVm")
\* the vms user code made with the data o that are not destroyed
LiveInstances(o) == {i \in 1..Len(heap.inst) : heap.inst[i].data = o /\ ~heap.inst[i].destroyed}
\* the vmCount of every Observer is the number of the vms not destroyed
\* that observed its object as root data
VmCountIsLive ==
  /\ \A o \in Objects :
       heap.obId[o] # UNDEF => /\ heap.vmCount[o] >= 0
                               /\ heap.vmCount[o] = Cardinality(LiveInstances(o))
  /\ heap.rootVmCount >= 0
  /\ heap.rootVmCount = Cardinality({v \in Vms : ~vm[v].isDestroyed})

\* C36: set of a key not present, and del of any key, on a vm or on an
\* object whose Observer has vmCount > 0 leave the target as it was (no
\* key added or removed, no Dep made) and notify no Dep; the vmCount of an
\* Observer is never negative and is the number of the vms not destroyed
\* that observed the object as root data
C36_RootGuard ==
  /\ [][GuardedCall => heap' = heap /\ ob' = ob /\ stack' = stack /\ subs' = subs]_vars
  /\ []VmCountIsLive

\* C36, the case: a vm was made with the data OBJ, set(OBJ, 2, 1) of the
\* absent key 2 was stopped by the guard, the vm was destroyed, and vmCount
\* is 0 again
C36_Witness ==
  /\ LastEv = "destroyInstance"
  /\ Len(heap.inst) = 1 /\ heap.inst[1].destroyed
  /\ ob[OBJ] /\ heap.vmCount[OBJ] = 0
  /\ heap.kval[2] = ABSENT
  /\ \E i \in Idx("observe") : \E j \in Idx("setKey") :
       i < j /\ trace[j] = E("setKey", 2, 1, 0)

(***************************************************************************)
(* C37: a watcher torn down is left by every Dep.                          *)
(***************************************************************************)
\* teardown() of watcher w has been called
TornDown(w) == IdxOf("teardown", w) # {}
\* the Deps that hold watcher w in subs
SubscribedTo(w) == {d \in Deps : w \in SeqToSet(subs[d])}
\* update() of w is not called once teardown() of w was called and the
\* pass of w under way then, if any, is over
NeverNotified(w) ==
  \A t \in IdxOf("teardown", w) : \A u \in IdxOf("update", w) :
    t < u => \A e \in IdxOf("getEnd", w) : ~(t < e /\ e < u)

\* C37: once teardown() of a watcher was called (also from inside its own
\* pass of get(), also when a lazy watcher is evaluated again afterwards)
\* the watcher is inactive, and whenever no pass of it is under way it is
\* in the subs of no Dep, so that update() of it is never called again
C37_TornDownTerminal ==
  \A w \in Watchers :
    TornDown(w) => /\ ~watcher[w].active
                   /\ NotEvaluating(w) => SubscribedTo(w) = {}
                   /\ NotEvaluating(w) => NeverNotified(w)

(***************************************************************************)
(* C38: the subs lists and the deps of the watchers agree.                 *)
(***************************************************************************)
\* C38: for every active watcher W with no pass of get() under way and
\* every Dep d, W is in d.subs iff d is in W.deps iff d.id is in W.depIds,
\* and W.newDeps and W.newDepIds are empty, whatever passes (also passes
\* that threw or were entered again from inside), notifications and
\* teardowns of other watchers came before
C38_SubscriptionConsistency ==
  \A w \in Watchers : watcher[w].active /\ NotEvaluating(w) => Consistent(w)

\* C38, the case: watcher 1 is active and read obj.a and obj.b when it was
\* constructed; a write made it evaluate again, its getter read obj.b only
\* and threw, the pass is over and the exception is on its way out; its
\* deps and the subs lists agree on obj.b alone
C38_Witness ==
  /\ wopt[1].init = <<1, 2>>
  /\ watcher[1].active /\ NotEvaluating(1)
  /\ GetterThrows(1) # {}
  /\ IdxOf("getEnd", 1) # {}
  /\ watcher[1].deps = <<2>>
  /\ SubscribedTo(1) = {2}

(***************************************************************************)
(* C39: the flags of the scheduler.                                        *)
(***************************************************************************)
\* C39: in every state in which no call of flushSchedulerQueue is
\* executing, flushing is false, and waiting is true only if the deferred
\* callbacks hold a call of flushSchedulerQueue, however the flush before
\* ended (at its end, by the test for circular updates, or by an exception
\* that left it)
C39_FlagsConsistent ==
  ~FlushOnStack => /\ ~flushing
                   /\ waiting => Outstanding > 0

(***************************************************************************)
(* C40: the value a computed property caches.                              *)
(***************************************************************************)
\* every call of get() of a lazy watcher is made by evaluate(), which
\* computedGetter calls
OnlyEvaluated ==
  \A i \in 1..Len(stack) :
    stack[i].k = "get" /\ wopt[stack[i].w].lazy =>
      i > 1 /\ stack[i - 1].k = "computedGetter" /\ stack[i - 1].w = stack[i].w
\* the end of the last pass of watcher w, 0 for the pass made before the
\* first turn
LastPassEnd(w) == IF IdxOf("getEnd", w) = {} THEN 0 ELSE Max(IdxOf("getEnd", w))
\* a property that the last pass of watcher w read was given another value
\* after that pass
ChangedSince(w) ==
  \E i \in Idx("set") :
    /\ i > LastPassEnd(w)
    /\ trace[i].c = 1
    /\ trace[i].a \in SeqToSet(watcher[w].deps)
\* user code is running
UserRuns == Len(stack) > 0 /\ ~exc /\ Top.k \in UserFrames

\* C40: get() of a lazy watcher is called by evaluate() only; and whenever
\* user code runs (and so may read the computed property), every active
\* lazy watcher L that is not being evaluated and one of whose Deps of the
\* last pass was given another value since that pass is dirty, so that a
\* read with dirty = false returns no value older than the last change
C40_LazyFresh ==
  /\ OnlyEvaluated
  /\ UserRuns =>
       \A w \in Watchers :
         wopt[w].lazy /\ watcher[w].active /\ NotEvaluating(w) /\ ChangedSince(w)
           => watcher[w].dirty

====
